---- MODULE Spec2Model ----
(***************************************************************************)
(* Conversation tree engine of canopy.                                     *)
(*                                                                         *)
(* Two implementations of the tree live in the repository:                 *)
(*   - the flat-array application (src/App.tsx, ChatNode[] in              *)
(*     src/types.ts) with the pure mutation functions of                   *)
(*     src/features/deletion/utils.ts and src/features/archive/utils.ts;   *)
(*   - the Map-based conversation store (src/unnamed/part_023,             *)
(*     ConversationNode in src/src/types/tree.ts) with the project store   *)
(*     (src/unnamed/part_022).                                             *)
(*                                                                         *)
(* Spec     sequences of node creations and mutation operations on the     *)
(*          flat collection, over the starter projects.                    *)
(* SpecOps  single operations with the snapshot each was given kept in     *)
(*          `last`: either the flat collection or the Map store.           *)
(* SpecStore  the operations of the Map store alone.                       *)
(* SpecSend the flat collection with the send handler's pending node, its  *)
(*          completion and its rollback, and the mutation operations; or   *)
(*          the Map store with ChatContainer's send handler.               *)
(* SpecPin  the flat collection with pinned context nodes.                 *)
(* SpecLayout  calculateTreeLayout (src/unnamed/part_024) on every ordered *)
(*          tree of a bounded size.                                        *)
(* SpecFold the Map store with archived and collapsed nodes, and its       *)
(*          layout.                                                        *)
(* SpecGraph  the flat collection seen through the graph view: clicks on   *)
(*          the nodes of the hierarchy it draws, tree or archive.          *)
(* SpecLinks  the node operations of both implementations.                 *)
(* SpecProjects  projects created, selected and deleted, in the flat       *)
(*          application or in the stores.                                  *)
(***************************************************************************)
EXTENDS Integers, Sequences, FiniteSets, TLC

VARIABLES
    mode,             \* "seq" | "flat" | "send" | "pin" | "store" | "storesend" |
                      \* "layout" | "layoutfold" | "graph" | "projects" |
                      \* "storeprojects": what the behaviour runs
    nodes,            \* App.tsx `nodes`: ChatNode[] (a sequence, order kept)
    activeNodeId,     \* App.tsx `activeNodeId`: string | null
    activeProjectId,  \* App.tsx `activeProjectId`
    contextNodeIds,   \* App.tsx `contextNodeIds`: the pinned context nodes
    isLoading,        \* App.tsx `isLoading`: a send is awaiting the LLM
    pending,          \* what the running handleSendMessage closed over
    storeNodes,       \* conversationStore `nodes`: Map<string, ConversationNode>
    projects,         \* projectStore `projects`: Map<string, Project>
    storeActiveProjectId, \* projectStore `activeProjectId`
    canvas,           \* GraphCanvas: the memoized calculateTreeLayout result
    showArchived,     \* App.tsx `showArchived`: the graph shows the archive
    appProjects,      \* App.tsx `projects`: Project[] (the ids, order kept)
    nextId,           \* ids handed out so far by uuidv4 / generateId, plus one
    last,             \* the last operation applied and the snapshot it was given
    origin            \* the snapshot before an archive that is being undone

\* Node ids generated in one behaviour of Spec (ids are never reused).
MaxNodes == 4

\* Node ids generated in one behaviour of SpecOps.
MaxOpNodes == 3

\* Distinct clock values in one behaviour of SpecPin.
MaxTimestamp == 2

\* Nodes of the largest store SpecLayout starts from.
MaxLayoutNodes == 9

\* Node ids generated in one behaviour of SpecFold.
MaxFoldNodes == 3

\* Node ids generated in one behaviour of SpecGraph.
MaxGraphNodes == 3

\* `null` of `string | null`.
Null == 0

\* Values Date.now() returns in one behaviour of SpecPin.
Timestamps == 1..MaxTimestamp

\* Ids of STARTER_PROJECTS, and the `null` of `activeProjectId`.
ProjectIds == {"p1", "p2"}

NoProject == "null"

\* App.tsx STARTER_PROJECTS, by id.
STARTER_PROJECTS == <<"p1", "p2">>

\* Ids generateId hands to the projects created in the project store.
StoreProjectIds == IF mode = "storeprojects" THEN {1, 2} ELSE {1}

\* Ids uuidv4 hands to the projects created in the flat app.
NewProjectIds == {"p3"}

Limit == IF mode = "seq" THEN MaxNodes
         ELSE IF mode = "layoutfold" THEN MaxFoldNodes
         ELSE IF mode = "graph" THEN MaxGraphNodes
         ELSE MaxOpNodes

\* Every id an operation may be called with: ids in use, ids of deleted
\* nodes and ids not generated yet.
NodeIds == 1..Limit

vars == <<mode, nodes, activeNodeId, activeProjectId, contextNodeIds, isLoading, pending,
          storeNodes, projects, storeActiveProjectId, canvas, showArchived, appProjects,
          nextId, last, origin>>

flatVars == <<nodes, activeNodeId, activeProjectId, contextNodeIds, isLoading, pending,
              showArchived, appProjects>>

storeVars == <<storeNodes, projects, storeActiveProjectId>>

----------------------------------------------------------------------------
(* Helpers over ChatNode[]                                                 *)

Range(s) == {s[i] : i \in DOMAIN s}

Ids(ns) == {ns[i].id : i \in DOMAIN ns}

\* Array.prototype.find(n => n.id === nodeId): the first match.
HasNode(ns, nodeId) == \E i \in DOMAIN ns : ns[i].id = nodeId

FindNode(ns, nodeId) ==
    ns[CHOOSE i \in DOMAIN ns :
            /\ ns[i].id = nodeId
            /\ \A j \in DOMAIN ns : j < i => ns[j].id # nodeId]

\* Array.prototype.filter / map.
Filter(ns, Keep(_)) == SelectSeq(ns, Keep)

MapSeq(ns, F(_)) == [i \in DOMAIN ns |-> F(ns[i])]

\* The node handleSendMessage builds before the LLM call.
NewChatNode(id, parentId, projectId) ==
    [ id                |-> id,
      parentId          |-> parentId,
      projectId         |-> projectId,
      summary           |-> "Generating...",
      userPrompt        |-> "prompt",
      assistantResponse |-> "",
      timestamp         |-> id,
      isArchived        |-> FALSE,
      isCollapsed       |-> FALSE ]

\* findDescendants(nodeId) of the cascade operations: every node whose
\* parentId is in `frontier` and whose id is not yet in `acc` is added and
\* expanded in turn.
RECURSIVE findDescendants(_, _, _)
findDescendants(ns, frontier, acc) ==
    LET found == {ns[i].id : i \in {j \in DOMAIN ns : ns[j].parentId \in frontier}} \ acc
    IN  IF found = {} THEN acc
        ELSE findDescendants(ns, found, acc \cup found)

----------------------------------------------------------------------------
(* src/features/deletion/utils.ts                                          *)

\* Faulty variant: the children of the deleted node are not promoted.
deleteNodeOnlyNoPromote(ns, nodeId, active) ==
    IF ~HasNode(ns, nodeId)
    THEN [updatedNodes |-> ns, newActiveNodeId |-> active]
    ELSE [ updatedNodes    |-> Filter(ns, LAMBDA n : n.id # nodeId),
           newActiveNodeId |-> IF active = nodeId
                               THEN FindNode(ns, nodeId).parentId ELSE active ]

\* Faulty variant: the children of the deleted node all become roots.
deleteNodeOnlyToRoot(ns, nodeId, active) ==
    IF ~HasNode(ns, nodeId)
    THEN [updatedNodes |-> ns, newActiveNodeId |-> active]
    ELSE [ updatedNodes    |->
               MapSeq(Filter(ns, LAMBDA n : n.id # nodeId),
                      LAMBDA n : IF n.parentId = nodeId
                                 THEN [n EXCEPT !.parentId = Null] ELSE n),
           newActiveNodeId |-> IF active = nodeId
                               THEN FindNode(ns, nodeId).parentId ELSE active ]

\* Faulty variant: a promoted child names itself as its parent.
deleteNodeOnlySelfParent(ns, nodeId, active) ==
    IF ~HasNode(ns, nodeId)
    THEN [updatedNodes |-> ns, newActiveNodeId |-> active]
    ELSE [ updatedNodes    |->
               MapSeq(Filter(ns, LAMBDA n : n.id # nodeId),
                      LAMBDA n : IF n.parentId = nodeId
                                 THEN [n EXCEPT !.parentId = n.id] ELSE n),
           newActiveNodeId |-> IF active = nodeId
                               THEN FindNode(ns, nodeId).parentId ELSE active ]

deleteNodeOnly(ns, nodeId, active) ==
    IF ~HasNode(ns, nodeId)
    THEN [updatedNodes |-> ns, newActiveNodeId |-> active]
    ELSE LET nodeToDelete == FindNode(ns, nodeId)
             Keep(n) == n.id # nodeId
             Promote(n) == IF n.parentId = nodeId
                           THEN [n EXCEPT !.parentId = nodeToDelete.parentId]
                           ELSE n
         IN  [ updatedNodes    |-> MapSeq(Filter(ns, Keep), Promote),
               newActiveNodeId |-> IF active = nodeId
                                   THEN nodeToDelete.parentId ELSE active ]

\* Faulty variant: only the direct children are collected.
deleteNodeWithChildrenShallow(ns, nodeId, active) ==
    IF ~HasNode(ns, nodeId)
    THEN [updatedNodes |-> ns, newActiveNodeId |-> active]
    ELSE LET nodesToDelete ==
                 {nodeId} \cup {ns[i].id : i \in {j \in DOMAIN ns : ns[j].parentId = nodeId}}
         IN  [ updatedNodes    |-> Filter(ns, LAMBDA n : n.id \notin nodesToDelete),
               newActiveNodeId |-> IF active # Null /\ active \in nodesToDelete
                                   THEN FindNode(ns, nodeId).parentId ELSE active ]

\* Faulty variant: the active node moves only when it is the deleted node
\* itself.
deleteNodeWithChildrenActiveSelf(ns, nodeId, active) ==
    IF ~HasNode(ns, nodeId)
    THEN [updatedNodes |-> ns, newActiveNodeId |-> active]
    ELSE LET nodesToDelete == findDescendants(ns, {nodeId}, {nodeId})
         IN  [ updatedNodes    |-> Filter(ns, LAMBDA n : n.id \notin nodesToDelete),
               newActiveNodeId |-> IF active = nodeId
                                   THEN FindNode(ns, nodeId).parentId ELSE active ]

deleteNodeWithChildren(ns, nodeId, active) ==
    IF ~HasNode(ns, nodeId)
    THEN [updatedNodes |-> ns, newActiveNodeId |-> active]
    ELSE LET nodeToDelete  == FindNode(ns, nodeId)
             nodesToDelete == findDescendants(ns, {nodeId}, {nodeId})
             Keep(n) == n.id \notin nodesToDelete
         IN  [ updatedNodes    |-> Filter(ns, Keep),
               newActiveNodeId |-> IF active # Null /\ active \in nodesToDelete
                                   THEN nodeToDelete.parentId ELSE active ]

\* Faulty variant: only the direct children are removed.
deleteChildrenOnlyShallow(ns, nodeId, active) ==
    LET nodesToDelete == {ns[i].id : i \in {j \in DOMAIN ns : ns[j].parentId = nodeId}}
    IN  [ updatedNodes    |-> Filter(ns, LAMBDA n : n.id \notin nodesToDelete),
          newActiveNodeId |-> IF active # Null /\ active \in nodesToDelete
                              THEN nodeId ELSE active ]

deleteChildrenOnly(ns, nodeId, active) ==
    LET nodesToDelete == findDescendants(ns, {nodeId}, {})
        Keep(n) == n.id \notin nodesToDelete
    IN  [ updatedNodes    |-> Filter(ns, Keep),
          newActiveNodeId |-> IF active # Null /\ active \in nodesToDelete
                              THEN nodeId ELSE active ]

----------------------------------------------------------------------------
(* src/features/archive/utils.ts                                           *)

archiveNodeOnly(ns, nodeId, active) ==
    IF ~HasNode(ns, nodeId)
    THEN [updatedNodes |-> ns, newActiveNodeId |-> active]
    ELSE LET nodeToArchive == FindNode(ns, nodeId)
             Upd(n) == IF n.id = nodeId THEN [n EXCEPT !.isArchived = TRUE]
                       ELSE IF n.parentId = nodeId
                            THEN [n EXCEPT !.parentId = nodeToArchive.parentId]
                            ELSE n
         IN  [ updatedNodes    |-> MapSeq(ns, Upd),
               newActiveNodeId |-> IF active = nodeId
                                   THEN nodeToArchive.parentId ELSE active ]

\* Faulty variant: the descendants are left as they are.
archiveNodeWithChildrenAlone(ns, nodeId, active) ==
    IF ~HasNode(ns, nodeId)
    THEN [updatedNodes |-> ns, newActiveNodeId |-> active]
    ELSE [ updatedNodes    |->
               MapSeq(ns, LAMBDA n : IF n.id = nodeId
                                     THEN [n EXCEPT !.isArchived = TRUE] ELSE n),
           newActiveNodeId |-> IF active = nodeId
                               THEN FindNode(ns, nodeId).parentId ELSE active ]

archiveNodeWithChildren(ns, nodeId, active) ==
    IF ~HasNode(ns, nodeId)
    THEN [updatedNodes |-> ns, newActiveNodeId |-> active]
    ELSE LET nodeToArchive  == FindNode(ns, nodeId)
             nodesToArchive == findDescendants(ns, {nodeId}, {nodeId})
             Upd(n) == IF n.id \in nodesToArchive
                       THEN [n EXCEPT !.isArchived = TRUE] ELSE n
         IN  [ updatedNodes    |-> MapSeq(ns, Upd),
               newActiveNodeId |-> IF active # Null /\ active \in nodesToArchive
                                   THEN nodeToArchive.parentId ELSE active ]

archiveChildrenOnly(ns, nodeId, active) ==
    LET nodesToArchive == findDescendants(ns, {nodeId}, {})
        Upd(n) == IF n.id \in nodesToArchive
                  THEN [n EXCEPT !.isArchived = TRUE] ELSE n
    IN  [ updatedNodes    |-> MapSeq(ns, Upd),
          newActiveNodeId |-> IF active # Null /\ active \in nodesToArchive
                              THEN nodeId ELSE active ]

\* Faulty variant: only the node itself is restored (this is unarchiveNode).
unarchiveNodeAlone(ns, nodeId) ==
    MapSeq(ns, LAMBDA n : IF n.id = nodeId THEN [n EXCEPT !.isArchived = FALSE] ELSE n)

unarchiveNodeWithChildren(ns, nodeId) ==
    LET nodesToUnarchive == findDescendants(ns, {nodeId}, {nodeId})
        Upd(n) == IF n.id \in nodesToUnarchive
                  THEN [n EXCEPT !.isArchived = FALSE] ELSE n
    IN  MapSeq(ns, Upd)


----------------------------------------------------------------------------
(* Conversation store and project store (Map-based)                        *)

MapSet(m, k, v) == [x \in DOMAIN m \cup {k} |-> IF x = k THEN v ELSE m[x]]

MapDelete(m, gone) == [x \in DOMAIN m \ gone |-> m[x]]

EmptyMap == [x \in {} |-> Null]

\* The node createNode builds. The text of a user message stands for what
\* was typed for that send, a different text for each node; the empty
\* assistantMessage is `null`.
NewConversationNode(id, projectId, parentId) ==
    [ id               |-> id,
      projectId        |-> projectId,
      userMessage      |-> ToString(id),
      assistantMessage |-> "",
      parentId         |-> parentId,
      childIds         |-> <<>>,
      summary          |-> ToString(id),
      isArchived       |-> FALSE,
      isCollapsed      |-> FALSE,
      createdAt        |-> id ]

\* projectStore.createProject: the record it stores.
NewProject(id) ==
    [ id |-> id, name |-> "project", rootNodeId |-> Null,
      activeNodeId |-> Null, systemPrompt |-> "" ]

\* projectStore.updateProject: a no-op for an unknown project.
updateProject(ps, id, root, active) ==
    IF id \notin DOMAIN ps THEN ps
    ELSE MapSet(ps, id, [ps[id] EXCEPT !.rootNodeId = root,
                                       !.activeNodeId = active])

\* Faulty variant: the new id is put in front of the parent's childIds.
createNodePrepend(m, id, projectId, parentId) ==
    LET withNode == MapSet(m, id, NewConversationNode(id, projectId, parentId))
    IN  IF parentId # Null /\ parentId \in DOMAIN withNode
        THEN MapSet(withNode, parentId,
                    [withNode[parentId] EXCEPT
                        !.childIds = <<id>> \o withNode[parentId].childIds])
        ELSE withNode

\* conversationStore.createNode: the new `nodes` map.
createNode(m, id, projectId, parentId) ==
    LET withNode == MapSet(m, id, NewConversationNode(id, projectId, parentId))
    IN  IF parentId # Null /\ parentId \in DOMAIN withNode
        THEN MapSet(withNode, parentId,
                    [withNode[parentId] EXCEPT
                        !.childIds = Append(withNode[parentId].childIds, id)])
        ELSE withNode

\* conversationStore.createNode: what it does to the project store.
createNodeProjects(ps, id, projectId, parentId) ==
    IF projectId \notin DOMAIN ps THEN ps
    ELSE IF ps[projectId].rootNodeId = Null /\ parentId = Null
         THEN updateProject(ps, projectId, id, id)
         ELSE updateProject(ps, projectId, ps[projectId].rootNodeId, id)

\* Faulty variant: a node that is no longer stored is written back.
setAssistantMessageUpsert(m, nodeId, message) ==
    MapSet(m, nodeId,
           [(IF nodeId \in DOMAIN m THEN m[nodeId]
             ELSE NewConversationNode(nodeId, Null, Null))
            EXCEPT !.assistantMessage = message])

\* conversationStore.setAssistantMessage.
setAssistantMessage(m, nodeId, message) ==
    IF nodeId \notin DOMAIN m THEN m
    ELSE MapSet(m, nodeId, [m[nodeId] EXCEPT !.assistantMessage = message])

\* The queue walk of deleteNode / archiveNode: every id reached through
\* childIds, whether or not a node is stored under it.
RECURSIVE collectChildIds(_, _, _)
collectChildIds(m, frontier, acc) ==
    LET found == UNION {Range(m[c].childIds) : c \in frontier \cap DOMAIN m}
    IN  IF found \subseteq acc THEN acc \cup found
        ELSE collectChildIds(m, found \ acc, acc \cup found)

\* Faulty variant: the parent keeps the deleted id in its childIds.
deleteNodeKeepLink(m, id) ==
    IF id \notin DOMAIN m THEN m
    ELSE MapDelete(m, collectChildIds(m, {id}, {id}))

\* conversationStore.deleteNode.
deleteNode(m, id) ==
    IF id \notin DOMAIN m THEN m
    ELSE LET node     == m[id]
             toDelete == collectChildIds(m, {id}, {id})
             detached ==
                 IF node.parentId # Null /\ node.parentId \in DOMAIN m
                 THEN MapSet(m, node.parentId,
                        [m[node.parentId] EXCEPT
                           !.childIds = SelectSeq(m[node.parentId].childIds,
                                                  LAMBDA cid : cid # id)])
                 ELSE m
         IN  MapDelete(detached, toDelete)

\* conversationStore.archiveNode.
archiveNode(m, id) ==
    IF id \notin DOMAIN m THEN m
    ELSE LET toArchive == collectChildIds(m, {id}, {id})
         IN  [x \in DOMAIN m |->
                IF x \in toArchive THEN [m[x] EXCEPT !.isArchived = TRUE] ELSE m[x]]

\* conversationStore.unarchiveNode: updateNode(id, {isArchived: false}).
unarchiveNode(m, id) ==
    IF id \notin DOMAIN m THEN m
    ELSE MapSet(m, id, [m[id] EXCEPT !.isArchived = FALSE])

\* conversationStore.toggleCollapse.
toggleCollapse(m, id) ==
    IF id \notin DOMAIN m THEN m
    ELSE MapSet(m, id, [m[id] EXCEPT !.isCollapsed = ~m[id].isCollapsed])

----------------------------------------------------------------------------
(* Traversal                                                               *)

\* lib/tree/traversal.ts getAncestorPath: the walk from `current` upwards,
\* each node met is put in front of the path (unshift).
RECURSIVE ancestorWalk(_, _, _)
ancestorWalk(m, current, path) ==
    IF current \notin DOMAIN m THEN path
    ELSE ancestorWalk(m, m[current].parentId, <<m[current]>> \o path)

\* Faulty variant: each node met is put at the end of the path (push).
RECURSIVE ancestorWalkPush(_, _, _)
ancestorWalkPush(m, current, path) ==
    IF current \notin DOMAIN m THEN path
    ELSE ancestorWalkPush(m, m[current].parentId, Append(path, m[current]))

getAncestorPathLeafFirst(m, nodeId) == ancestorWalkPush(m, nodeId, <<>>)

getAncestorPath(m, nodeId) == ancestorWalk(m, nodeId, <<>>)

\* lib/tree/traversal.ts getDepth.
RECURSIVE getDepth(_, _)
getDepth(m, nodeId) ==
    IF nodeId \notin DOMAIN m \/ m[nodeId].parentId = Null THEN 0
    ELSE 1 + (IF m[nodeId].parentId \in DOMAIN m
              THEN getDepth(m, m[nodeId].parentId) ELSE 0)

\* lib/tree/traversal.ts findCommonAncestor: the first node of the path of
\* nodeId2, read from the root, that is on the path of nodeId1; the node is
\* given by its id, `undefined` by Null.
firstOnPath(path2, ancestors1) ==
    IF \A j \in DOMAIN path2 : path2[j].id \notin ancestors1 THEN Null
    ELSE path2[CHOOSE j \in DOMAIN path2 :
                   /\ path2[j].id \in ancestors1
                   /\ \A k \in 1..(j - 1) : path2[k].id \notin ancestors1].id

findCommonAncestor(m, nodeId1, nodeId2) ==
    firstOnPath(getAncestorPath(m, nodeId2),
                {n.id : n \in Range(getAncestorPath(m, nodeId1))})

\* conversationStore.getAncestors: the stored ancestors of the node, the
\* root first, the node itself not among them.
RECURSIVE ancestorsAbove(_, _, _)
ancestorsAbove(m, current, ancestors) ==
    IF current \notin DOMAIN m \/ m[current].parentId \notin DOMAIN m THEN ancestors
    ELSE ancestorsAbove(m, m[current].parentId, <<m[m[current].parentId]>> \o ancestors)

getAncestors(m, nodeId) == ancestorsAbove(m, nodeId, <<>>)

\* LinearView: `path`, the nodes it renders one message pair each.
LinearViewPath(m, activeId) ==
    IF activeId = Null \/ activeId \notin DOMAIN m THEN <<>>
    ELSE Append(getAncestorPath(m, activeId), m[activeId])

\* utils/treeUtils.ts getAncestorPath, over ChatNode[].
RECURSIVE flatAncestorWalk(_, _, _)
flatAncestorWalk(allNodes, currentId, path) ==
    IF currentId = Null \/ ~HasNode(allNodes, currentId) THEN path
    ELSE LET node == FindNode(allNodes, currentId)
         IN  flatAncestorWalk(allNodes, node.parentId, <<node>> \o path)

getAncestorPathFlat(allNodes, leafNodeId) == flatAncestorWalk(allNodes, leafNodeId, <<>>)

----------------------------------------------------------------------------
(* Context building (lib/context)                                          *)

\* System prompts a project may carry: empty, blank, and text with spaces
\* around it.
SystemPrompts == {"", "   ", " Be brief. "}

\* String.prototype.trim on those prompts.
trim(str) ==
    CASE str = "   "         -> ""
      [] str = " Be brief. " -> "Be brief."
      [] OTHER               -> str

\* `if (systemPrompt && systemPrompt.trim()) messages.push(...)`.
systemMessages(systemPrompt) ==
    IF systemPrompt # "" /\ trim(systemPrompt) # ""
    THEN <<[role |-> "system", content |-> systemPrompt]>>
    ELSE <<>>

\* The loop over the path: the user message of each node, then its
\* assistant message if it has one.
RECURSIVE pathMessages(_, _)
pathMessages(path, i) ==
    IF i > Len(path) THEN <<>>
    ELSE <<[role |-> "user", content |-> path[i].userMessage]>>
         \o (IF path[i].assistantMessage # ""
             THEN <<[role |-> "model", content |-> path[i].assistantMessage]>>
             ELSE <<>>)
         \o pathMessages(path, i + 1)

\* getAncestorPath, with the node pushed when the path does not hold it.
pathWithNode(m, nodeId) ==
    LET path == getAncestorPath(m, nodeId)
    IN  IF nodeId \in DOMAIN m /\ ~\E i \in DOMAIN path : path[i].id = nodeId
        THEN Append(path, m[nodeId]) ELSE path

\* Faulty variant: the node is pushed unconditionally.
buildContextTargetTwice(m, nodeId, systemPrompt) ==
    systemMessages(systemPrompt)
    \o pathMessages(IF nodeId \in DOMAIN m
                    THEN Append(getAncestorPath(m, nodeId), m[nodeId])
                    ELSE getAncestorPath(m, nodeId), 1)

buildContext(m, nodeId, systemPrompt) ==
    systemMessages(systemPrompt) \o pathMessages(pathWithNode(m, nodeId), 1)

buildContextForNewMessage(m, parentId, newUserMessage, systemPrompt) ==
    systemMessages(systemPrompt)
    \o (IF parentId # Null THEN pathMessages(pathWithNode(m, parentId), 1) ELSE <<>>)
    \o <<[role |-> "user", content |-> newUserMessage]>>

----------------------------------------------------------------------------
(* Pinned context (App.tsx contextPath)                                    *)

\* Array.prototype.sort((a, b) => a.timestamp - b.timestamp): ascending and
\* stable, so a node goes behind the nodes whose timestamp is not larger.
insertByTimestamp(sorted, n) ==
    LET before == Cardinality({i \in DOMAIN sorted : sorted[i].timestamp <= n.timestamp})
    IN  SubSeq(sorted, 1, before) \o <<n>> \o SubSeq(sorted, before + 1, Len(sorted))

RECURSIVE sortByTimestamp(_, _, _)
sortByTimestamp(ns, i, sorted) ==
    IF i > Len(ns) THEN sorted
    ELSE sortByTimestamp(ns, i + 1, insertByTimestamp(sorted, ns[i]))

\* Ids of the nodes on the ancestor paths of the pinned nodes.
allContextNodes(ns, pinned) ==
    UNION {Ids(getAncestorPathFlat(ns, nodeId)) : nodeId \in pinned}

\* Faulty variant: the filtered nodes are returned in array order.
contextPathUnsorted(ns, pinned, activePath) ==
    IF pinned = {} THEN activePath
    ELSE Filter(ns, LAMBDA n : n.id \in allContextNodes(ns, pinned))

contextPath(ns, pinned, activePath) ==
    IF pinned = {} THEN activePath
    ELSE sortByTimestamp(Filter(ns, LAMBDA n : n.id \in allContextNodes(ns, pinned)),
                         1, <<>>)

\* App.tsx activePath.
activePath(ns, active) ==
    IF active = Null THEN <<>> ELSE getAncestorPathFlat(ns, active)

\* handleSendMessage: the `history` given to the LLM calls of a send that
\* hangs the new message below the active node.
historyOf(context, active) == IF Len(context) > 0 THEN context ELSE active

history(ns, pinned, activeId) ==
    historyOf(contextPath(ns, pinned, activePath(ns, activeId)), activePath(ns, activeId))

----------------------------------------------------------------------------
(* Tree layout (lib/tree/layout.ts calculateTreeLayout)                    *)

\* NODE_WIDTH, NODE_HEIGHT, HORIZONTAL_SPACING, VERTICAL_SPACING.
NODE_WIDTH == 200

NODE_HEIGHT == 80

HORIZONTAL_SPACING == 40

VERTICAL_SPACING == 60

\* The defaults of TreeLayoutOptions.
DefaultOptions ==
    [ nodeWidth         |-> NODE_WIDTH,
      nodeHeight        |-> NODE_HEIGHT,
      horizontalSpacing |-> HORIZONTAL_SPACING,
      verticalSpacing   |-> VERTICAL_SPACING,
      showArchived      |-> FALSE ]

\* `a / b` of two numbers whose quotient is a whole number; a quotient with
\* a fractional part has no value here, and an evaluation that needs one
\* stops.
Quotient(a, b) == CHOOSE q \in {a \div b} : q * b = a

\* The LayoutState buildLayoutState makes for a node; `ancestor` is the
\* state itself, and states are named by the id of their node.
NewLayoutState(id, parent, depth, number, options) ==
    [ x        |-> 0,
      y        |-> depth * (options.nodeHeight + options.verticalSpacing),
      mod      |-> 0,
      prelim   |-> 0,
      shift    |-> 0,
      change   |-> 0,
      thread   |-> Null,
      ancestor |-> id,
      number   |-> number,
      children |-> <<>>,
      parent   |-> parent ]

\* buildLayoutState: the states of the subtree of `id`, none when the node
\* is archived and archived nodes are not shown. buildChildren is the loop
\* over node.childIds; `acc` holds the states built so far, the state of
\* `id` among them.
RECURSIVE buildLayoutState(_, _, _, _, _, _), buildChildren(_, _, _, _, _, _, _)
RECURSIVE pushChild(_, _, _, _, _, _, _, _)
\* Faulty variant: the children of a collapsed node are built too.
buildLayoutStateOpen(m, id, parent, depth, number, options) ==
    IF ~options.showArchived /\ m[id].isArchived THEN EmptyMap
    ELSE buildChildren(m, id, 1, depth, 0, options,
                       MapSet(EmptyMap, id,
                              NewLayoutState(id, parent, depth, number, options)))

buildLayoutState(m, id, parent, depth, number, options) ==
    IF ~options.showArchived /\ m[id].isArchived THEN EmptyMap
    ELSE LET state == MapSet(EmptyMap, id,
                             NewLayoutState(id, parent, depth, number, options))
         IN  IF ~m[id].isCollapsed
             THEN buildChildren(m, id, 1, depth, 0, options, state)
             ELSE state

buildChildren(m, id, i, depth, childNumber, options, acc) ==
    IF i > Len(m[id].childIds) THEN acc
    ELSE pushChild(m, id, i, depth, childNumber, options, acc,
                   IF m[id].childIds[i] \in DOMAIN m
                   THEN buildLayoutState(m, m[id].childIds[i], id, depth + 1,
                                         childNumber, options)
                   ELSE EmptyMap)

\* The body of that loop once the state of the child is built: a child
\* that has a state is pushed on state.children and takes a number.
pushChild(m, id, i, depth, childNumber, options, acc, childState) ==
    IF m[id].childIds[i] \in DOMAIN childState
    THEN buildChildren(m, id, i + 1, depth, childNumber + 1, options,
             [x \in DOMAIN acc \cup DOMAIN childState |->
                 IF x = id
                 THEN [acc[id] EXCEPT !.children = Append(@, m[id].childIds[i])]
                 ELSE IF x \in DOMAIN childState THEN childState[x]
                 ELSE acc[x]])
    ELSE buildChildren(m, id, i + 1, depth, childNumber, options, acc)

\* v.parent.children[v.number - 1].
leftSibling(s, v) == s[s[v].parent].children[s[v].number]

nextLeft(s, v) ==
    IF v = Null THEN Null
    ELSE IF Len(s[v].children) > 0 THEN s[v].children[1] ELSE s[v].thread

nextRight(s, v) ==
    IF v = Null THEN Null
    ELSE IF Len(s[v].children) > 0 THEN s[v].children[Len(s[v].children)]
    ELSE s[v].thread

\* Faulty variant: the subtree is left where it is.
moveSubtreeNot(s, wl, wr, shift) == s

moveSubtree(s, wl, wr, shift) ==
    LET subtrees == s[wr].number - s[wl].number
    IN  IF subtrees > 0
        THEN LET right == [s EXCEPT ![wr].change = @ - Quotient(shift, subtrees),
                                    ![wr].shift  = @ + shift]
                 left  == [right EXCEPT ![wl].change = @ + Quotient(shift, subtrees)]
             IN  [left EXCEPT ![wr].prelim = @ + shift,
                              ![wr].mod    = @ + shift]
        ELSE s

\* executeShifts: the loop from the last child down to the first.
RECURSIVE executeShiftsFrom(_, _, _, _, _)
executeShiftsFrom(s, v, i, shift, change) ==
    IF i < 1 THEN s
    ELSE LET w == s[v].children[i]
         IN  executeShiftsFrom([s EXCEPT ![w].prelim = @ + shift,
                                         ![w].mod    = @ + shift],
                               v, i - 1,
                               shift + s[w].shift + change + s[w].change,
                               change + s[w].change)

executeShifts(s, v) == executeShiftsFrom(s, v, Len(s[v].children), 0, 0)

ancestor(s, vil, v, defaultAncestor) ==
    IF s[v].parent # Null /\ s[vil].ancestor \in Range(s[s[v].parent].children)
    THEN s[vil].ancestor
    ELSE defaultAncestor

\* The local variables of apportion when its loop is entered.
apportionStart(s, v) ==
    [ s           |-> s,
      vInnerRight |-> v,
      vOuterRight |-> v,
      vInnerLeft  |-> leftSibling(s, v),
      vOuterLeft  |-> s[s[v].parent].children[1],
      sInnerRight |-> s[v].mod,
      sOuterRight |-> s[v].mod,
      sInnerLeft  |-> s[leftSibling(s, v)].mod,
      sOuterLeft  |-> s[s[s[v].parent].children[1]].mod ]

\* The loop body of apportion in three parts. First the four contour
\* pointers move one level down and the new vOuterRight, if there is one,
\* gets v as its ancestor.
apportionDescend(a, v) ==
    [a EXCEPT !.vInnerLeft  = nextRight(a.s, a.vInnerLeft),
              !.vInnerRight = nextLeft(a.s, a.vInnerRight),
              !.vOuterLeft  = nextLeft(a.s, a.vOuterLeft),
              !.vOuterRight = nextRight(a.s, a.vOuterRight),
              !.s = IF nextRight(a.s, a.vOuterRight) # Null
                    THEN [a.s EXCEPT ![nextRight(a.s, a.vOuterRight)].ancestor = v]
                    ELSE a.s]

\* Then a positive shift moves the subtree of v; `shift` is 0 when the
\* shift computed was not positive.
apportionMove(a, v, defaultAncestor, shift) ==
    IF shift > 0
    THEN [a EXCEPT !.s = moveSubtree(a.s, ancestor(a.s, a.vInnerLeft, v, defaultAncestor),
                                     v, shift),
                   !.sInnerRight = @ + shift,
                   !.sOuterRight = @ + shift]
    ELSE a

\* Last the modifiers of the four nodes are added to the four sums.
apportionSum(a) ==
    [a EXCEPT !.sInnerLeft  = @ + a.s[a.vInnerLeft].mod,
              !.sInnerRight = @ + a.s[a.vInnerRight].mod,
              !.sOuterLeft  = IF a.vOuterLeft # Null
                              THEN @ + a.s[a.vOuterLeft].mod ELSE @,
              !.sOuterRight = IF a.vOuterRight # Null
                              THEN @ + a.s[a.vOuterRight].mod ELSE @]

apportionShift(a, unitWidth) ==
    a.s[a.vInnerLeft].prelim + a.sInnerLeft
    - (a.s[a.vInnerRight].prelim + a.sInnerRight) + unitWidth

apportionBody(a, v, defaultAncestor, unitWidth) ==
    apportionSum(apportionMove(a, v, defaultAncestor, apportionShift(a, unitWidth)))

\* The while loop of apportion over its local variables `a`.
RECURSIVE apportionLoop(_, _, _, _)
apportionLoop(a, v, defaultAncestor, unitWidth) ==
    IF nextRight(a.s, a.vInnerLeft) = Null \/ nextLeft(a.s, a.vInnerRight) = Null
    THEN a
    ELSE apportionLoop(apportionBody(apportionDescend(a, v), v, defaultAncestor,
                                     unitWidth),
                       v, defaultAncestor, unitWidth)

\* The first `if` behind the loop: the thread of vOuterRight.
apportionThreadRight(a) ==
    IF /\ nextRight(a.s, a.vInnerLeft) # Null
       /\ nextRight(a.s, a.vOuterRight) = Null
       /\ a.vOuterRight # Null
    THEN [a EXCEPT !.s = [a.s EXCEPT
              ![a.vOuterRight].thread = nextRight(a.s, a.vInnerLeft),
              ![a.vOuterRight].mod = @ + a.sInnerLeft - a.sOuterRight]]
    ELSE a

\* The second `if` behind the loop: the thread of vOuterLeft, and v as the
\* new defaultAncestor. The states and the defaultAncestor returned.
apportionThreadLeft(a, v, defaultAncestor) ==
    IF nextLeft(a.s, a.vInnerRight) # Null /\ nextLeft(a.s, a.vOuterLeft) = Null
    THEN [ s |-> IF a.vOuterLeft # Null
                 THEN [a.s EXCEPT
                         ![a.vOuterLeft].thread = nextLeft(a.s, a.vInnerRight),
                         ![a.vOuterLeft].mod = @ + a.sInnerRight - a.sOuterLeft]
                 ELSE a.s,
           defaultAncestor |-> v ]
    ELSE [s |-> a.s, defaultAncestor |-> defaultAncestor]

\* apportion: the states after it and the defaultAncestor it returns.
apportion(s, v, defaultAncestor, unitWidth) ==
    IF s[v].number > 0 /\ s[v].parent # Null
    THEN apportionThreadLeft(
             apportionThreadRight(
                 apportionLoop(apportionStart(s, v), v, defaultAncestor, unitWidth)),
             v, defaultAncestor)
    ELSE [s |-> s, defaultAncestor |-> defaultAncestor]

\* The end of firstWalk for a node with children, behind executeShifts: the
\* node is put at the midpoint of its first and last child, or next to its
\* left sibling with the difference kept in mod.
firstWalkPlace(s, v, unitWidth) ==
    LET midpoint == Quotient(s[s[v].children[1]].prelim
                             + s[s[v].children[Len(s[v].children)]].prelim, 2)
    IN  IF s[v].number > 0 /\ s[v].parent # Null
        THEN [s EXCEPT ![v].prelim = s[leftSibling(s, v)].prelim + unitWidth,
                       ![v].mod    = s[leftSibling(s, v)].prelim + unitWidth - midpoint]
        ELSE [s EXCEPT ![v].prelim = midpoint]

\* firstWalk; firstWalkChildren is its loop over v.children, which goes on
\* in firstWalkNext with what apportion returned.
RECURSIVE firstWalk(_, _, _), firstWalkChildren(_, _, _, _, _)
RECURSIVE firstWalkNext(_, _, _, _)
firstWalk(s, v, unitWidth) ==
    IF Len(s[v].children) = 0
    THEN IF s[v].number > 0 /\ s[v].parent # Null
         THEN [s EXCEPT ![v].prelim = s[leftSibling(s, v)].prelim + unitWidth]
         ELSE [s EXCEPT ![v].prelim = 0]
    ELSE firstWalkPlace(
             executeShifts(firstWalkChildren(s, v, 1, s[v].children[1], unitWidth), v),
             v, unitWidth)

firstWalkChildren(s, v, i, defaultAncestor, unitWidth) ==
    IF i > Len(s[v].children) THEN s
    ELSE firstWalkNext(apportion(firstWalk(s, s[v].children[i], unitWidth),
                                 s[v].children[i], defaultAncestor, unitWidth),
                       v, i, unitWidth)

firstWalkNext(r, v, i, unitWidth) ==
    firstWalkChildren(r.s, v, i + 1, r.defaultAncestor, unitWidth)

\* secondWalk; secondWalkChildren is its loop over v.children.
RECURSIVE secondWalk(_, _, _), secondWalkChildren(_, _, _, _)
\* Faulty variant: the children are placed without the modifier of v.
secondWalkNoMod(s, v, m) ==
    secondWalkChildren([s EXCEPT ![v].x = s[v].prelim + m], v, 1, m)

secondWalk(s, v, m) ==
    secondWalkChildren([s EXCEPT ![v].x = s[v].prelim + m], v, 1, m + s[v].mod)

secondWalkChildren(s, v, i, m) ==
    IF i > Len(s[v].children) THEN s
    ELSE secondWalkChildren(secondWalk(s, s[v].children[i], m), v, i + 1, m)

\* extractLayout: the LayoutNode of every state below `v`, `v` included.
RECURSIVE extractLayout(_, _, _, _, _), extractChildren(_, _, _, _, _, _)
extractLayout(m, s, v, depth, options) ==
    extractChildren(m, s, v, 1, depth, options)
    @@ MapSet(EmptyMap, v,
              [ id       |-> v,
                x        |-> s[v].x,
                y        |-> s[v].y,
                width    |-> options.nodeWidth,
                height   |-> options.nodeHeight,
                depth    |-> depth,
                parentId |-> m[v].parentId,
                childIds |-> s[v].children ])

extractChildren(m, s, v, i, depth, options) ==
    IF i > Len(s[v].children) THEN EmptyMap
    ELSE extractLayout(m, s, s[v].children[i], depth + 1, options)
         @@ extractChildren(m, s, v, i + 1, depth, options)

\* The bounds of a layout; those of the empty layout are all zero.
NoBounds == [minX |-> 0, maxX |-> 0, minY |-> 0, maxY |-> 0, width |-> 0, height |-> 0]

Least(S) == CHOOSE x \in S : \A y \in S : x <= y

Greatest(S) == CHOOSE x \in S : \A y \in S : x >= y

boundsOf(layout) ==
    LET minX == Least({layout[id].x : id \in DOMAIN layout})
        maxX == Greatest({layout[id].x + layout[id].width : id \in DOMAIN layout})
        minY == Least({layout[id].y : id \in DOMAIN layout})
        maxY == Greatest({layout[id].y + layout[id].height : id \in DOMAIN layout})
    IN  [minX |-> minX, maxX |-> maxX, minY |-> minY, maxY |-> maxY,
         width |-> maxX - minX, height |-> maxY - minY]

NoLayout == [layout |-> EmptyMap, bounds |-> NoBounds]

\* What calculateTreeLayout returns for a layout that is not empty.
withBounds(layout) == [layout |-> layout, bounds |-> boundsOf(layout)]

\* calculateTreeLayout from the root state on.
layoutFrom(m, rootState, rootId, options) ==
    IF rootId \notin DOMAIN rootState THEN NoLayout
    ELSE withBounds(
             extractLayout(m,
                 secondWalk(firstWalk(rootState, rootId,
                                      options.nodeWidth + options.horizontalSpacing),
                            rootId, 0),
                 rootId, 0, options))

calculateTreeLayout(m, rootId, options) ==
    IF rootId = Null \/ rootId \notin DOMAIN m THEN NoLayout
    ELSE layoutFrom(m, buildLayoutState(m, rootId, Null, 0, 0, options), rootId, options)

\* What GraphCanvas holds before its first render and after a dependency of
\* its useMemo changed.
NoCanvas == [rootId |-> Null, options |-> DefaultOptions, layout |-> EmptyMap,
             bounds |-> NoBounds, rendered |-> FALSE]

----------------------------------------------------------------------------
(* The hierarchy the graph view draws (utils/treeUtils.ts, GraphView.tsx)   *)

\* Node ids are numbers in the model; the ids of the two synthesized roots
\* are numbers no uuidv4 id takes.
VIRTUAL_ROOT == 101

ARCHIVED_ROOT == 102

VirtualIds == {VIRTUAL_ROOT, ARCHIVED_ROOT}

\* `null` of `TreeDataNode | null`.
NoTree == [id |-> Null, children |-> <<>>]

filterArchivedNodes(ns) == Filter(ns, LAMBDA n : ~n.isArchived)

\* The inner `build` of the three hierarchy builders: the node with the
\* nodes of `projectNodes` that name it as parent below it, in array order
\* (`name` and `data` go along with the id).
RECURSIVE build(_, _)
build(projectNodes, node) ==
    [ id       |-> node.id,
      children |-> MapSeq(Filter(projectNodes, LAMBDA n : n.parentId = node.id),
                          LAMBDA c : build(projectNodes, c)) ]

\* utils/treeUtils.ts: the tree below the first root-level node.
firstRootTree(projectNodes, rootNodes) ==
    IF rootNodes = <<>> THEN NoTree ELSE build(projectNodes, rootNodes[1])

buildHierarchy(allNodes, projectId) ==
    firstRootTree(filterArchivedNodes(Filter(allNodes, LAMBDA n : n.projectId = projectId)),
                  Filter(filterArchivedNodes(
                             Filter(allNodes, LAMBDA n : n.projectId = projectId)),
                         LAMBDA n : n.parentId = Null))

\* One root is returned as it is, several are put below a virtual root.
joinRoots(projectNodes, rootNodes, virtualId) ==
    IF rootNodes = <<>> THEN NoTree
    ELSE IF Len(rootNodes) = 1 THEN build(projectNodes, rootNodes[1])
    ELSE [ id       |-> virtualId,
           children |-> MapSeq(rootNodes, LAMBDA r : build(projectNodes, r)) ]

\* The variant of utils/treeUtils.ts with a virtual root.
buildHierarchyVirtual(allNodes, projectId, shown) ==
    joinRoots(Filter(allNodes, LAMBDA n : n.projectId = projectId
                                          /\ (shown \/ ~n.isArchived)),
              Filter(allNodes, LAMBDA n : /\ n.projectId = projectId
                                          /\ (shown \/ ~n.isArchived)
                                          /\ n.parentId = Null),
              VIRTUAL_ROOT)

\* The archived nodes with no archived parent are the roots of the archive.
buildArchivedHierarchy(allNodes, projectId) ==
    joinRoots(Filter(allNodes, LAMBDA n : n.projectId = projectId /\ n.isArchived),
              Filter(allNodes,
                     LAMBDA n : /\ n.projectId = projectId
                                /\ n.isArchived
                                /\ \/ n.parentId = Null
                                   \/ ~HasNode(allNodes, n.parentId)
                                   \/ ~FindNode(allNodes, n.parentId).isArchived),
              ARCHIVED_ROOT)

\* GraphView's `treeData`.
treeData(allNodes, projectId, shown) ==
    IF shown THEN buildArchivedHierarchy(allNodes, projectId)
    ELSE buildHierarchy(allNodes, projectId)

\* The ids of d3.hierarchy(tree).descendants(): the nodes GraphView draws,
\* each with its click handler.
RECURSIVE descendants(_)
descendants(tree) ==
    {tree.id} \cup UNION {descendants(tree.children[i]) : i \in DOMAIN tree.children}

drawn(tree) == IF tree = NoTree THEN {} ELSE descendants(tree)

----------------------------------------------------------------------------
(* State after construction                                                *)

NoOp == [op |-> "none", nodeId |-> Null, nodes |-> <<>>, activeNodeId |-> Null]

NoOrigin == [op |-> "none", nodes |-> <<>>]

NoPending == [newNodeId |-> Null, activeNodeId |-> Null]

ArchiveOps == {"archiveNodeOnly", "archiveNodeWithChildren", "archiveChildrenOnly"}

StoreRuns == {"store", "storesend"}

\* The runs of SpecLayout, the layout of every store of a bounded size, and
\* of SpecFold, the layout of the stores built, archived and collapsed step
\* by step.
LayoutRuns == {"layout", "layoutfold"}

\* The snapshot an operation of SpecOps is given; Spec keeps none.
Record(op, nodeId) ==
    IF mode \in {"seq", "pin", "graph", "projects", "storeprojects"} \cup LayoutRuns THEN NoOp
    ELSE [ op |-> op, nodeId |-> nodeId,
           nodes |-> IF mode \in StoreRuns THEN storeNodes ELSE nodes,
           activeNodeId |-> activeNodeId ]

Construct ==
    /\ nodes = <<>>
    /\ activeNodeId = Null
    /\ activeProjectId = "p1"
    /\ contextNodeIds = {}
    /\ isLoading = FALSE
    /\ pending = NoPending
    /\ storeNodes = EmptyMap
    /\ projects = EmptyMap
    /\ storeActiveProjectId = Null
    /\ canvas = NoCanvas
    /\ showArchived = FALSE
    /\ appProjects = STARTER_PROJECTS
    /\ nextId = 1
    /\ last = NoOp
    /\ origin = NoOrigin

Init == mode = "seq" /\ Construct

InitOps == mode \in {"flat", "store"} /\ Construct

InitSend == mode \in {"send", "storesend"} /\ Construct

InitPin == mode = "pin" /\ Construct

InitGraph == mode = "graph" /\ Construct

\* The ids on the way from node `id` up to the root, by the parent ids.
RECURSIVE pathUp(_, _)
pathUp(parents, id) == IF id = Null THEN {} ELSE {id} \cup pathUp(parents, parents[id])

\* The parent ids of the trees of n nodes, the nodes numbered as a run of
\* createNode calls numbers them when every branch is finished before the
\* next one is begun: each ordered tree of n nodes is there once.
RECURSIVE PreorderParents(_)
PreorderParents(n) ==
    IF n = 1 THEN {<<Null>>}
    ELSE UNION {{Append(parents, parentId) : parentId \in pathUp(parents, n - 1)} :
                parents \in PreorderParents(n - 1)}

\* The store after createNode was called for the ids i, i + 1, ... of
\* project 1 with these parent ids.
RECURSIVE createNodes(_, _, _)
createNodes(m, parents, i) ==
    IF i > Len(parents) THEN m
    ELSE createNodes(createNode(m, i, 1, parents[i]), parents, i + 1)

\* SpecLayout starts from the store and the project some run of createNode
\* calls leaves behind.
InitLayout ==
    /\ mode = "layout"
    /\ nodes = <<>>
    /\ activeNodeId = Null
    /\ activeProjectId = "p1"
    /\ contextNodeIds = {}
    /\ isLoading = FALSE
    /\ pending = NoPending
    /\ \E n \in 1..MaxLayoutNodes : \E parents \in PreorderParents(n) :
          /\ storeNodes = createNodes(EmptyMap, parents, 1)
          /\ projects = updateProject(MapSet(EmptyMap, 1, NewProject(1)), 1, 1, n)
          /\ nextId = n + 1
    /\ storeActiveProjectId = 1
    /\ canvas = NoCanvas
    /\ showArchived = FALSE
    /\ appProjects = STARTER_PROJECTS
    /\ last = NoOp
    /\ origin = NoOrigin

InitFold == mode = "layoutfold" /\ Construct

----------------------------------------------------------------------------
(* The flat collection                                                     *)

\* handleSendMessage with the response taken as given: the node is created
\* under the active node and becomes the active node.
CreateNode ==
    /\ mode \in {"seq", "flat", "graph", "projects"}
    /\ activeProjectId # NoProject
    /\ nextId <= Limit
    /\ nodes' = Append(nodes, NewChatNode(nextId, activeNodeId, activeProjectId))
    /\ activeNodeId' = nextId
    /\ nextId' = nextId + 1
    /\ last' = Record("createNode", nextId)
    /\ origin' = NoOrigin
    /\ UNCHANGED <<mode, canvas, showArchived, appProjects, contextNodeIds, activeProjectId, isLoading, pending, storeVars>>

\* handleSendMessage up to the await of the LLM call.
SendMessage ==
    /\ mode = "send"
    /\ activeProjectId # NoProject
    /\ ~isLoading
    /\ nextId <= Limit
    /\ nodes' = Append(nodes, NewChatNode(nextId, activeNodeId, activeProjectId))
    /\ activeNodeId' = nextId
    /\ isLoading' = TRUE
    /\ pending' = [newNodeId |-> nextId, activeNodeId |-> activeNodeId]
    /\ nextId' = nextId + 1
    /\ last' = Record("createNode", nextId)
    /\ origin' = NoOrigin
    /\ UNCHANGED <<mode, canvas, showArchived, appProjects, contextNodeIds, activeProjectId, storeVars>>

\* handleSendMessage after both LLM calls returned.
attachResponse(ns, newNodeId) ==
    MapSeq(ns, LAMBDA n : IF n.id = newNodeId
                          THEN [n EXCEPT !.assistantResponse = "response",
                                         !.summary = "summary"]
                          ELSE n)

SendSucceeds ==
    /\ mode = "send"
    /\ isLoading
    /\ nodes' = attachResponse(nodes, pending.newNodeId)
    /\ isLoading' = FALSE
    /\ pending' = NoPending
    /\ last' = Record("attachResponse", pending.newNodeId)
    /\ origin' = NoOrigin
    /\ UNCHANGED <<mode, canvas, showArchived, appProjects, contextNodeIds, activeNodeId, activeProjectId, storeVars, nextId>>

\* handleSendMessage's catch block: the pending node is removed and the
\* active node is set back to the value the handler closed over.
SendFails ==
    /\ mode = "send"
    /\ isLoading
    /\ nodes' = Filter(nodes, LAMBDA n : n.id # pending.newNodeId)
    /\ activeNodeId' = pending.activeNodeId
    /\ isLoading' = FALSE
    /\ pending' = NoPending
    /\ last' = Record("rollback", pending.newNodeId)
    /\ origin' = NoOrigin
    /\ UNCHANGED <<mode, canvas, showArchived, appProjects, contextNodeIds, activeProjectId, storeVars, nextId>>

\* handleNodeClick on a node drawn for the active project.
NodeClick ==
    /\ mode \in {"seq", "flat", "send", "pin", "projects"}
    /\ \E id \in Ids(nodes) :
        /\ FindNode(nodes, id).projectId = activeProjectId
        /\ id # activeNodeId
        /\ activeNodeId' = id
    /\ last' = NoOp
    /\ origin' = NoOrigin
    /\ UNCHANGED <<mode, canvas, showArchived, appProjects, contextNodeIds, nodes, activeProjectId, isLoading, pending, storeVars, nextId>>

\* handleSendMessage with the response taken as given; the timestamp is
\* Date.now(), wall-clock time, which may repeat or step back.
PinCreateNode ==
    /\ mode = "pin"
    /\ nextId <= Limit
    /\ \E now \in Timestamps :
           nodes' = Append(nodes, [NewChatNode(nextId, activeNodeId, activeProjectId)
                                      EXCEPT !.timestamp = now])
    /\ activeNodeId' = nextId
    /\ nextId' = nextId + 1
    /\ UNCHANGED <<mode, canvas, showArchived, appProjects, contextNodeIds, activeProjectId, isLoading, pending, storeVars,
                   last, origin>>

\* handleToggleContext on a node drawn in the graph.
ToggleContext ==
    /\ mode = "pin"
    /\ \E nodeId \in Ids(nodes) :
           contextNodeIds' = IF nodeId \in contextNodeIds
                             THEN contextNodeIds \ {nodeId}
                             ELSE contextNodeIds \cup {nodeId}
    /\ UNCHANGED <<mode, canvas, showArchived, appProjects, nodes, activeNodeId, activeProjectId, isLoading, pending,
                   storeVars, nextId, last, origin>>

\* handleSelectProject: the latest non-archived node of the project becomes
\* the active node.
LatestOf(ns, p) ==
    LET cand == {i \in DOMAIN ns : ns[i].projectId = p /\ ~ns[i].isArchived}
    IN  IF cand = {} THEN Null
        ELSE ns[CHOOSE i \in cand :
                    \A j \in cand : \/ ns[j].timestamp < ns[i].timestamp
                                    \/ (ns[j].timestamp = ns[i].timestamp /\ i <= j)].id

SelectProject ==
    /\ mode \in {"seq", "projects"}
    /\ \E p \in Range(appProjects) :
        /\ p # activeProjectId
        /\ activeProjectId' = p
        /\ activeNodeId' = LatestOf(nodes, p)
    /\ contextNodeIds' = {}
    /\ last' = NoOp
    /\ origin' = NoOrigin
    /\ UNCHANGED <<mode, canvas, showArchived, appProjects, nodes, isLoading, pending, storeVars, nextId>>

\* features/deletion/utils.ts deleteProject.
deleteProject(ps, ns, projectId, active) ==
    [ updatedProjects    |-> SelectSeq(ps, LAMBDA p : p # projectId),
      updatedNodes       |-> Filter(ns, LAMBDA n : n.projectId # projectId),
      newActiveProjectId |->
          IF active # projectId THEN active
          ELSE IF SelectSeq(ps, LAMBDA p : p # projectId) = <<>> THEN NoProject
          ELSE SelectSeq(ps, LAMBDA p : p # projectId)[1],
      newActiveNodeId    |-> Null ]

\* handleCreateProject with a name given: the new project is appended and
\* becomes the active one, with no active node and no pinned context.
CreateProject ==
    /\ mode = "projects"
    /\ \E id \in NewProjectIds \ Range(appProjects) :
        /\ appProjects' = Append(appProjects, id)
        /\ activeProjectId' = id
    /\ activeNodeId' = Null
    /\ contextNodeIds' = {}
    /\ UNCHANGED <<mode, canvas, showArchived, nodes, isLoading, pending, storeVars,
                   nextId, last, origin>>

\* handleDeleteProject with the dialog confirmed.
DeleteProject ==
    /\ mode = "projects"
    /\ \E id \in Range(appProjects) :
        /\ appProjects' = deleteProject(appProjects, nodes, id, activeProjectId).updatedProjects
        /\ nodes' = deleteProject(appProjects, nodes, id, activeProjectId).updatedNodes
        /\ IF activeProjectId = id
           THEN /\ activeProjectId' =
                       deleteProject(appProjects, nodes, id, activeProjectId).newActiveProjectId
                /\ activeNodeId' = Null
                /\ contextNodeIds' = {}
           ELSE UNCHANGED <<activeProjectId, activeNodeId, contextNodeIds>>
    /\ UNCHANGED <<mode, canvas, showArchived, isLoading, pending, storeVars,
                   nextId, last, origin>>

\* setNodes(result.updatedNodes); setActiveNodeId(result.newActiveNodeId);
\* the node the dialog was opened for is taken out of the pinned context.
Apply(op, nodeId, result) ==
    /\ mode \in {"seq", "flat", "send", "pin", "graph"}
    /\ nodes' = result.updatedNodes
    /\ activeNodeId' = result.newActiveNodeId
    /\ contextNodeIds' = contextNodeIds \ {nodeId}
    /\ last' = Record(op, nodeId)
    /\ origin' = NoOrigin
    /\ UNCHANGED <<mode, canvas, showArchived, appProjects, activeProjectId, isLoading, pending, storeVars, nextId>>

DeleteNodeOnly ==
    \E t \in NodeIds : Apply("deleteNodeOnly", t, deleteNodeOnly(nodes, t, activeNodeId))

DeleteNodeWithChildren ==
    \E t \in NodeIds :
        Apply("deleteNodeWithChildren", t, deleteNodeWithChildren(nodes, t, activeNodeId))

DeleteChildrenOnly ==
    \E t \in NodeIds :
        Apply("deleteChildrenOnly", t, deleteChildrenOnly(nodes, t, activeNodeId))

ArchiveNodeOnly ==
    \E t \in NodeIds : Apply("archiveNodeOnly", t, archiveNodeOnly(nodes, t, activeNodeId))

ArchiveNodeWithChildren ==
    \E t \in NodeIds :
        Apply("archiveNodeWithChildren", t, archiveNodeWithChildren(nodes, t, activeNodeId))

ArchiveChildrenOnly ==
    \E t \in NodeIds :
        Apply("archiveChildrenOnly", t, archiveChildrenOnly(nodes, t, activeNodeId))

\* handleModalConfirm, 'unarchive': the restored node becomes the active node
\* and the graph goes back to the tree.
\* handleUnarchiveNode opens the dialog only for a node of the collection,
\* and the graph draws the nodes of the active project only.
UnarchiveNodeWithChildren ==
    /\ mode \in {"seq", "flat", "send", "graph"}
    /\ \E t \in NodeIds :
        /\ HasNode(nodes, t)
        /\ FindNode(nodes, t).projectId = activeProjectId
        /\ nodes' = unarchiveNodeWithChildren(nodes, t)
        /\ activeNodeId' = t
        /\ contextNodeIds' = contextNodeIds \ {t}
        /\ last' = Record("unarchiveNodeWithChildren", t)
        /\ origin' = IF last.op \in ArchiveOps /\ last.nodeId = t
                     THEN [op |-> last.op, nodes |-> last.nodes]
                     ELSE NoOrigin
    /\ showArchived' = FALSE
    /\ UNCHANGED <<mode, canvas, appProjects, activeProjectId, isLoading, pending, storeVars, nextId>>

\* GraphView's click handler of a drawn node, without the shift key:
\* onNodeClick(d.data.id), which is handleNodeClick.
GraphNodeClick ==
    /\ mode = "graph"
    /\ \E id \in drawn(treeData(nodes, activeProjectId, showArchived)) :
        /\ id # activeNodeId
        /\ activeNodeId' = id
    /\ UNCHANGED <<mode, canvas, showArchived, appProjects, contextNodeIds, nodes,
                   activeProjectId, isLoading, pending, storeVars, nextId, last, origin>>

\* The same handler with the shift key: onToggleContext(d.data.id), which is
\* handleToggleContext.
GraphToggleContext ==
    /\ mode = "graph"
    /\ \E nodeId \in drawn(treeData(nodes, activeProjectId, showArchived)) :
           contextNodeIds' = IF nodeId \in contextNodeIds
                             THEN contextNodeIds \ {nodeId}
                             ELSE contextNodeIds \cup {nodeId}
    /\ UNCHANGED <<mode, canvas, showArchived, appProjects, nodes, activeNodeId,
                   activeProjectId, isLoading, pending, storeVars, nextId, last, origin>>

\* onToggleShowArchived: the graph changes between the tree and the archive.
ToggleShowArchived ==
    /\ mode = "graph"
    /\ showArchived' = ~showArchived
    /\ UNCHANGED <<mode, canvas, appProjects, nodes, activeNodeId, activeProjectId,
                   contextNodeIds, isLoading, pending, storeVars, nextId, last, origin>>

Mutation ==
    \/ DeleteNodeOnly
    \/ DeleteNodeWithChildren
    \/ DeleteChildrenOnly
    \/ ArchiveNodeOnly
    \/ ArchiveNodeWithChildren
    \/ ArchiveChildrenOnly
    \/ UnarchiveNodeWithChildren

----------------------------------------------------------------------------
(* The Map store                                                           *)

\* CreateProjectModal: createProject makes the new project the active one.
StoreCreateProject ==
    /\ mode \in StoreRuns \cup {"layoutfold", "storeprojects"}
    /\ \E id \in StoreProjectIds \ DOMAIN projects :
           /\ projects' = MapSet(projects, id, NewProject(id))
           /\ storeActiveProjectId' = id
    /\ canvas' = NoCanvas
    /\ last' = NoOp
    /\ origin' = NoOrigin
    /\ UNCHANGED <<mode, flatVars, storeNodes, nextId>>

\* ChatContainer.handleSend: createNode under the active project's active
\* node.
StoreCreateNode ==
    /\ mode \in {"store", "layoutfold", "storeprojects"}
    /\ storeActiveProjectId # Null
    /\ nextId <= Limit
    /\ LET p        == storeActiveProjectId
           parentId == projects[p].activeNodeId
       IN  /\ storeNodes' = createNode(storeNodes, nextId, p, parentId)
           /\ projects' = createNodeProjects(projects, nextId, p, parentId)
    /\ canvas' = NoCanvas
    /\ nextId' = nextId + 1
    /\ last' = Record("createNode", nextId)
    /\ origin' = NoOrigin
    /\ UNCHANGED <<mode, flatVars, storeActiveProjectId>>

\* ProjectItem / BranchIndicator: updateProject(id, {activeNodeId}) with a
\* node shown for the project.
StoreSelectNode ==
    /\ mode \in StoreRuns \cup {"layoutfold"}
    /\ storeActiveProjectId # Null
    /\ \E id \in DOMAIN storeNodes :
        /\ storeNodes[id].projectId = storeActiveProjectId
        /\ id # projects[storeActiveProjectId].activeNodeId
        /\ projects' = updateProject(projects, storeActiveProjectId,
                                     projects[storeActiveProjectId].rootNodeId, id)
    /\ last' = NoOp
    /\ origin' = NoOrigin
    /\ UNCHANGED <<mode, canvas, flatVars, storeNodes, storeActiveProjectId, nextId>>

\* ProjectItem's onClick: setActiveProject(project.id).
StoreSetActiveProject ==
    /\ mode = "storeprojects"
    /\ \E id \in DOMAIN projects :
        /\ id # storeActiveProjectId
        /\ storeActiveProjectId' = id
    /\ canvas' = NoCanvas
    /\ UNCHANGED <<mode, flatVars, storeNodes, projects, nextId, last, origin>>

\* ProjectItem.handleDelete with the dialog confirmed: projectStore's
\* deleteProject, which is all it calls.
StoreDeleteProject ==
    /\ mode = "storeprojects"
    /\ \E id \in DOMAIN projects :
        /\ projects' = MapDelete(projects, {id})
        /\ storeActiveProjectId' = IF storeActiveProjectId = id THEN Null
                                   ELSE storeActiveProjectId
    /\ canvas' = NoCanvas
    /\ UNCHANGED <<mode, flatVars, storeNodes, nextId, last, origin>>

StoreApply(op, nodeId, result) ==
    /\ mode \in StoreRuns \cup {"layoutfold"}
    /\ storeNodes' = result
    /\ canvas' = NoCanvas
    /\ last' = Record(op, nodeId)
    /\ UNCHANGED <<mode, flatVars, projects, storeActiveProjectId, nextId>>

StoreSetAssistantMessage ==
    /\ mode = "store"
    /\ \E t \in NodeIds :
         StoreApply("setAssistantMessage", t, setAssistantMessage(storeNodes, t, "response"))
    /\ origin' = NoOrigin

StoreDeleteNode ==
    /\ \E t \in NodeIds : StoreApply("deleteNode", t, deleteNode(storeNodes, t))
    /\ origin' = NoOrigin

StoreArchiveNode ==
    /\ mode \in {"store", "layoutfold"}
    /\ \E t \in NodeIds : StoreApply("archiveNode", t, archiveNode(storeNodes, t))
    /\ origin' = NoOrigin

StoreUnarchiveNode ==
    \E t \in NodeIds :
        /\ mode \in {"store", "layoutfold"}
        /\ StoreApply("unarchiveNode", t, unarchiveNode(storeNodes, t))
        /\ origin' = IF last.op = "archiveNode" /\ last.nodeId = t
                     THEN [op |-> last.op, nodes |-> last.nodes]
                     ELSE NoOrigin

\* ChatContainer.handleSend up to the await of sendMessage: the node is
\* created under the active project's active node; without an API key the
\* handler returns there. ChatInput is disabled while a send is awaited.
StoreSendMessage ==
    /\ mode = "storesend"
    /\ storeActiveProjectId # Null
    /\ ~isLoading
    /\ nextId <= Limit
    /\ LET p        == storeActiveProjectId
           parentId == projects[p].activeNodeId
       IN  /\ storeNodes' = createNode(storeNodes, nextId, p, parentId)
           /\ projects' = createNodeProjects(projects, nextId, p, parentId)
    /\ \E apiKey \in BOOLEAN :
           /\ isLoading' = apiKey
           /\ pending' = IF apiKey THEN [newNodeId |-> nextId, activeNodeId |-> Null]
                                  ELSE NoPending
           /\ last' = Record(IF apiKey THEN "createNode" ELSE "noApiKey", nextId)
    /\ nextId' = nextId + 1
    /\ origin' = NoOrigin
    /\ UNCHANGED <<mode, canvas, showArchived, appProjects, contextNodeIds, nodes, activeNodeId, activeProjectId, storeActiveProjectId>>

\* ChatContainer.handleSend after sendMessage returned.
StoreSendSucceeds ==
    /\ mode = "storesend"
    /\ isLoading
    /\ storeNodes' = setAssistantMessage(storeNodes, pending.newNodeId, "response")
    /\ isLoading' = FALSE
    /\ pending' = NoPending
    /\ last' = Record("setAssistantMessage", pending.newNodeId)
    /\ origin' = NoOrigin
    /\ UNCHANGED <<mode, canvas, showArchived, appProjects, contextNodeIds, nodes, activeNodeId, activeProjectId, projects,
                   storeActiveProjectId, nextId>>

\* ChatContainer.handleSend's catch and finally blocks: the error is shown,
\* the store is not touched.
StoreSendFails ==
    /\ mode = "storesend"
    /\ isLoading
    /\ isLoading' = FALSE
    /\ pending' = NoPending
    /\ last' = Record("sendFailed", pending.newNodeId)
    /\ origin' = NoOrigin
    /\ UNCHANGED <<mode, canvas, showArchived, appProjects, contextNodeIds, nodes, activeNodeId, activeProjectId, storeVars, nextId>>

StoreToggleCollapse ==
    /\ mode = "layoutfold"
    /\ \E t \in NodeIds : StoreApply("toggleCollapse", t, toggleCollapse(storeNodes, t))
    /\ origin' = NoOrigin

\* The options calculateTreeLayout is called with: the defaults, and other
\* node sizes and spacings.
LayoutOptions ==
    { [size EXCEPT !.showArchived = shown] :
        size \in { DefaultOptions,
                   [DefaultOptions EXCEPT !.nodeWidth = 440, !.nodeHeight = 20,
                                          !.horizontalSpacing = 280,
                                          !.verticalSpacing = 0],
                   [DefaultOptions EXCEPT !.nodeWidth = 240,
                                          !.horizontalSpacing = 0] },
        shown \in BOOLEAN }

\* What GraphCanvas holds once calculateTreeLayout returned `result`.
Canvas(rootId, options, result) ==
    [ rootId   |-> rootId,
      options  |-> options,
      layout   |-> result.layout,
      bounds   |-> result.bounds,
      rendered |-> TRUE ]

\* GraphCanvas: the layout of the active project's tree is computed when
\* the canvas is first drawn and when nodes, rootId or the options change.
CalculateTreeLayout ==
    /\ mode \in LayoutRuns
    /\ storeActiveProjectId # Null
    /\ \E options \in LayoutOptions :
         canvas' = Canvas(projects[storeActiveProjectId].rootNodeId, options,
                          calculateTreeLayout(storeNodes,
                              projects[storeActiveProjectId].rootNodeId, options))
    /\ UNCHANGED <<mode, flatVars, storeVars, nextId, last, origin>>

----------------------------------------------------------------------------
(* Specifications                                                          *)

Next ==
    \/ CreateNode
    \/ NodeClick
    \/ SelectProject
    \/ Mutation

Spec == Init /\ [][Next]_vars

NextOps ==
    \/ CreateNode
    \/ NodeClick
    \/ Mutation
    \/ StoreCreateProject
    \/ StoreCreateNode
    \/ StoreSelectNode
    \/ StoreSetAssistantMessage
    \/ StoreDeleteNode
    \/ StoreArchiveNode
    \/ StoreUnarchiveNode

SpecOps == InitOps /\ [][NextOps]_vars

\* The Map store alone.
InitStore == mode = "store" /\ Construct

NextStore ==
    \/ StoreCreateProject
    \/ StoreCreateNode
    \/ StoreSelectNode
    \/ StoreSetAssistantMessage
    \/ StoreDeleteNode
    \/ StoreArchiveNode
    \/ StoreUnarchiveNode

SpecStore == InitStore /\ [][NextStore]_vars

NextSend ==
    \/ SendMessage
    \/ SendSucceeds
    \/ SendFails
    \/ NodeClick
    \/ Mutation
    \/ StoreCreateProject
    \/ StoreSendMessage
    \/ StoreSendSucceeds
    \/ StoreSendFails
    \/ StoreSelectNode
    \/ StoreDeleteNode

SpecSend == InitSend /\ [][NextSend]_vars

NextPin ==
    \/ PinCreateNode
    \/ ToggleContext
    \/ NodeClick
    \/ DeleteNodeOnly
    \/ DeleteNodeWithChildren

SpecPin == InitPin /\ [][NextPin]_vars

\* Projects created, selected and deleted, in the flat app and in the stores.
InitProjects == mode \in {"projects", "storeprojects"} /\ Construct

NextProjects ==
    \/ CreateNode
    \/ NodeClick
    \/ SelectProject
    \/ CreateProject
    \/ DeleteProject
    \/ StoreCreateProject
    \/ StoreCreateNode
    \/ StoreSetActiveProject
    \/ StoreDeleteProject

SpecProjects == InitProjects /\ [][NextProjects]_vars

\* The flat app seen through the graph view: the clicks are on drawn nodes.
NextGraph ==
    \/ CreateNode
    \/ GraphNodeClick
    \/ GraphToggleContext
    \/ ToggleShowArchived
    \/ Mutation

SpecGraph == InitGraph /\ [][NextGraph]_vars

\* The node operations of both implementations, the flat app with the
\* clicks that choose the active node in its graph view.
InitLinks == mode \in {"graph", "store"} /\ Construct

NextLinks ==
    \/ CreateNode
    \/ GraphNodeClick
    \/ ToggleShowArchived
    \/ Mutation
    \/ StoreCreateProject
    \/ StoreCreateNode
    \/ StoreSelectNode
    \/ StoreSetAssistantMessage
    \/ StoreDeleteNode
    \/ StoreArchiveNode
    \/ StoreUnarchiveNode

SpecLinks == InitLinks /\ [][NextLinks]_vars

SpecLayout == InitLayout /\ [][CalculateTreeLayout]_vars

NextFold ==
    \/ StoreCreateProject
    \/ StoreCreateNode
    \/ StoreSelectNode
    \/ StoreArchiveNode
    \/ StoreUnarchiveNode
    \/ StoreToggleCollapse
    \/ CalculateTreeLayout

SpecFold == InitFold /\ [][NextFold]_vars

----------------------------------------------------------------------------
(* Vocabulary of the properties: the tree read off the parent links        *)

\* The parent link of every node of a flat collection / of the Map store.
FlatParent(ns) == [id \in Ids(ns) |-> FindNode(ns, id).parentId]

StoreParent(m) == [id \in DOMAIN m |-> m[id].parentId]

\* Walking up the parent links from `id` meets `a` (in at most `fuel` steps).
RECURSIVE Reaches(_, _, _, _)
Reaches(par, id, a, fuel) ==
    /\ fuel > 0
    /\ id \in DOMAIN par
    /\ par[id] # Null
    /\ (par[id] = a \/ Reaches(par, par[id], a, fuel - 1))

\* Proper descendants of `t`, and `t` with them.
DescendantsOf(par, t) == {id \in DOMAIN par : Reaches(par, id, t, Cardinality(DOMAIN par))}

SubtreeOf(par, t) == {t} \cup DescendantsOf(par, t)

ChildrenOf(par, t) == {id \in DOMAIN par : par[id] = t}

IdSeq(ns) == [i \in DOMAIN ns |-> ns[i].id]

Pre == last.nodes

Target == last.nodeId

FlatRun == mode \in {"flat", "send"}

----------------------------------------------------------------------------
----------------------------------------------------------------------------
(* C2: in the Map store, after every createNode, deleteNode, archiveNode,  *)
(* unarchiveNode and setAssistantMessage, the childIds of every stored     *)
(* node hold, without duplicates, exactly the ids of the stored nodes      *)
(* whose parentId is that node's id.                                       *)
NoDuplicates(seq) == \A i, j \in DOMAIN seq : seq[i] = seq[j] => i = j

C2_ChildIdsMatchParents ==
    \A id \in DOMAIN storeNodes :
        /\ NoDuplicates(storeNodes[id].childIds)
        /\ Range(storeNodes[id].childIds) = ChildrenOf(StoreParent(storeNodes), id)

\* deleteNode removed one of two children, the other is still listed.
C2_Witness ==
    /\ mode = "store"
    /\ last.op = "deleteNode"
    /\ Target \in DOMAIN Pre
    /\ Pre[Target].parentId \in DOMAIN storeNodes
    /\ Len(Pre[Pre[Target].parentId].childIds) = 2
    /\ Len(storeNodes[Pre[Target].parentId].childIds) = 1

----------------------------------------------------------------------------
(* C3: deleteNodeOnly and archiveNodeOnly on an existing node t with       *)
(* parent p give its k children the parentId p (null when t is a root),    *)
(* keep the children's relative order in the collection and change no      *)
(* other node's parentId.                                                  *)
C3_ChildrenPromoted ==
    (/\ FlatRun
     /\ last.op \in {"deleteNodeOnly", "archiveNodeOnly"}
     /\ HasNode(Pre, Target))
    => LET kids == ChildrenOf(FlatParent(Pre), Target)
           p    == FindNode(Pre, Target).parentId
           IsKid(id) == id \in kids
       IN  /\ \A c \in kids : HasNode(nodes, c) /\ FindNode(nodes, c).parentId = p
           /\ \A i \in DOMAIN nodes :
                 nodes[i].id \notin kids =>
                    /\ HasNode(Pre, nodes[i].id)
                    /\ nodes[i].parentId = FindNode(Pre, nodes[i].id).parentId
           /\ SelectSeq(IdSeq(nodes), IsKid) = SelectSeq(IdSeq(Pre), IsKid)

\* deleteNodeOnly on a root with two children left two roots.
C3_Witness ==
    /\ FlatRun
    /\ last.op = "deleteNodeOnly"
    /\ HasNode(Pre, Target)
    /\ FindNode(Pre, Target).parentId = Null
    /\ Cardinality(ChildrenOf(FlatParent(Pre), Target)) = 2
    /\ Cardinality(ChildrenOf(FlatParent(nodes), Null)) = 2

----------------------------------------------------------------------------
(* C4: deleteNodeWithChildren on an existing node t removes exactly t and  *)
(* its transitive descendants and leaves every other node in place with    *)
(* all fields unchanged; the store's deleteNode does the same, except      *)
(* that t's id leaves the childIds of t's parent.                          *)
C4_SubtreeRemoved ==
    /\ (/\ FlatRun
        /\ last.op = "deleteNodeWithChildren"
        /\ HasNode(Pre, Target))
       => LET gone == SubtreeOf(FlatParent(Pre), Target)
          IN  nodes = SelectSeq(Pre, LAMBDA n : n.id \notin gone)
    /\ (/\ mode = "store"
        /\ last.op = "deleteNode"
        /\ Target \in DOMAIN Pre)
       => LET gone == SubtreeOf(StoreParent(Pre), Target)
              p    == Pre[Target].parentId
          IN  /\ DOMAIN storeNodes = DOMAIN Pre \ gone
              /\ \A x \in DOMAIN storeNodes :
                    storeNodes[x] =
                       IF x = p
                       THEN [Pre[x] EXCEPT
                               !.childIds = SelectSeq(Pre[x].childIds,
                                                      LAMBDA c : c # Target)]
                       ELSE Pre[x]

\* A subtree of two nodes was deleted and a node outside it is left.
C4_Witness ==
    /\ FlatRun
    /\ last.op = "deleteNodeWithChildren"
    /\ HasNode(Pre, Target)
    /\ Cardinality(SubtreeOf(FlatParent(Pre), Target)) = 2
    /\ Len(Pre) = 3
    /\ Len(nodes) = 1

----------------------------------------------------------------------------
(* C5: archiveNodeWithChildren on an existing node t keeps the set of      *)
(* nodes, sets isArchived on t and every transitive descendant and         *)
(* changes nothing else; no archive operation (the store's archiveNode     *)
(* included) removes a node.                                               *)
C5_SubtreeArchived ==
    /\ (/\ FlatRun
        /\ last.op = "archiveNodeWithChildren"
        /\ HasNode(Pre, Target))
       => LET hit == SubtreeOf(FlatParent(Pre), Target)
          IN  nodes = [i \in DOMAIN Pre |->
                         IF Pre[i].id \in hit
                         THEN [Pre[i] EXCEPT !.isArchived = TRUE] ELSE Pre[i]]
    /\ (FlatRun /\ last.op \in ArchiveOps) => IdSeq(nodes) = IdSeq(Pre)
    /\ (mode = "store" /\ last.op = "archiveNode" /\ Target \in DOMAIN Pre)
       => LET hit == SubtreeOf(StoreParent(Pre), Target)
          IN  storeNodes = [x \in DOMAIN Pre |->
                              IF x \in hit
                              THEN [Pre[x] EXCEPT !.isArchived = TRUE] ELSE Pre[x]]
    /\ (mode = "store" /\ last.op = "archiveNode") => DOMAIN storeNodes = DOMAIN Pre

\* A node and its child were archived, the root above them was not.
C5_Witness ==
    /\ FlatRun
    /\ last.op = "archiveNodeWithChildren"
    /\ HasNode(Pre, Target)
    /\ Cardinality(SubtreeOf(FlatParent(Pre), Target)) = 2
    /\ \A i \in DOMAIN Pre : ~Pre[i].isArchived
    /\ Cardinality({i \in DOMAIN nodes : nodes[i].isArchived}) = 2
    /\ Len(nodes) = 3

----------------------------------------------------------------------------
(* C6: deleteChildrenOnly on an existing node t removes exactly the        *)
(* proper descendants of t, keeps t and every node outside its subtree     *)
(* unchanged, and leaves no node whose parentId is t.                      *)
C6_DescendantsRemoved ==
    (/\ FlatRun
     /\ last.op = "deleteChildrenOnly"
     /\ HasNode(Pre, Target))
    => LET gone == DescendantsOf(FlatParent(Pre), Target)
       IN  /\ nodes = SelectSeq(Pre, LAMBDA n : n.id \notin gone)
           /\ HasNode(nodes, Target)
           /\ FindNode(nodes, Target) = FindNode(Pre, Target)
           /\ \A i \in DOMAIN nodes : nodes[i].parentId # Target

\* The child and the grandchild of a root were removed, the root is left.
C6_Witness ==
    /\ FlatRun
    /\ last.op = "deleteChildrenOnly"
    /\ HasNode(Pre, Target)
    /\ Cardinality(DescendantsOf(FlatParent(Pre), Target)) = 2
    /\ Cardinality(ChildrenOf(FlatParent(Pre), Target)) = 1
    /\ Len(nodes) = 1

----------------------------------------------------------------------------
(* C7: called with an id that is not the id of any node of the             *)
(* collection, each of the seven mutation operations returns the           *)
(* collection it was given and the activeNodeId it was given.              *)
MutationOps ==
    ArchiveOps \cup {"deleteNodeOnly", "deleteNodeWithChildren", "deleteChildrenOnly",
                     "unarchiveNodeWithChildren"}

C7_MissingTargetNoOp ==
    (/\ FlatRun
     /\ last.op \in MutationOps
     /\ ~HasNode(Pre, Target))
    => /\ nodes = Pre
       /\ activeNodeId = last.activeNodeId

----------------------------------------------------------------------------
(* C8: on an existing node t, the node-only and with-children variants of  *)
(* delete and archive return t's parentId as the active node when the      *)
(* active node was among the nodes they remove or archive, and the active  *)
(* node they were given otherwise; the children-only variants return t     *)
(* when the active node was a descendant of t, and the active node they    *)
(* were given otherwise.                                                   *)
C8_ActiveNodePolicy ==
    (FlatRun /\ HasNode(Pre, Target))
    => LET par      == FlatParent(Pre)
           was      == last.activeNodeId
           affected == IF last.op \in {"deleteNodeOnly", "archiveNodeOnly"}
                       THEN {Target} ELSE SubtreeOf(par, Target)
       IN  /\ last.op \in {"deleteNodeOnly", "archiveNodeOnly",
                           "deleteNodeWithChildren", "archiveNodeWithChildren"}
              => activeNodeId = IF was \in affected THEN par[Target] ELSE was
           /\ last.op \in {"deleteChildrenOnly", "archiveChildrenOnly"}
              => activeNodeId = IF was \in DescendantsOf(par, Target)
                                THEN Target ELSE was

\* The active node was a child of the deleted node; the root above the
\* deleted node is the active node now.
C8_Witness ==
    /\ FlatRun
    /\ last.op = "deleteNodeWithChildren"
    /\ HasNode(Pre, Target)
    /\ last.activeNodeId \in DescendantsOf(FlatParent(Pre), Target)
    /\ activeNodeId = FindNode(Pre, Target).parentId
    /\ activeNodeId # Null

----------------------------------------------------------------------------
(* C9: unarchiveNodeWithChildren clears isArchived on the node and on      *)
(* every transitive descendant, whatever their flags were, and changes     *)
(* nothing else; on a subtree that is already active, and when applied a   *)
(* second time, it returns the collection it was given.                    *)
C9_SubtreeUnarchived ==
    (FlatRun /\ last.op = "unarchiveNodeWithChildren")
    => LET hit == SubtreeOf(FlatParent(Pre), Target)
       IN  /\ nodes = [i \in DOMAIN Pre |->
                          IF Pre[i].id \in hit
                          THEN [Pre[i] EXCEPT !.isArchived = FALSE] ELSE Pre[i]]
           /\ (\A i \in DOMAIN Pre : Pre[i].id \in hit => ~Pre[i].isArchived)
              => nodes = Pre
           /\ unarchiveNodeWithChildren(nodes, Target) = nodes

\* An archived node with an archived child was restored while an archived
\* node outside the subtree stayed archived.
C9_Witness ==
    /\ FlatRun
    /\ last.op = "unarchiveNodeWithChildren"
    /\ HasNode(Pre, Target)
    /\ \E i \in DOMAIN Pre :
          /\ Pre[i].id \in DescendantsOf(FlatParent(Pre), Target)
          /\ Pre[i].isArchived
          /\ ~nodes[i].isArchived
    /\ \E i \in DOMAIN nodes : nodes[i].isArchived

----------------------------------------------------------------------------
(* C10: from a collection with no archived node, an archive operation on   *)
(* an existing node followed by the unarchive of the same node gives       *)
(* every node the parentId and the isArchived value it had before the      *)
(* archive (flat: archiveNodeOnly / archiveNodeWithChildren /              *)
(* archiveChildrenOnly then unarchiveNodeWithChildren; store: archiveNode  *)
(* then unarchiveNode).                                                    *)
C10_ArchiveReversible ==
    /\ (/\ FlatRun
        /\ origin.op \in ArchiveOps
        /\ HasNode(origin.nodes, Target)
        /\ \A i \in DOMAIN origin.nodes : ~origin.nodes[i].isArchived)
       => /\ IdSeq(nodes) = IdSeq(origin.nodes)
          /\ \A i \in DOMAIN nodes :
                /\ nodes[i].parentId = origin.nodes[i].parentId
                /\ nodes[i].isArchived = origin.nodes[i].isArchived
    /\ (/\ mode = "store"
        /\ origin.op = "archiveNode"
        /\ Target \in DOMAIN origin.nodes
        /\ \A x \in DOMAIN origin.nodes : ~origin.nodes[x].isArchived)
       => /\ DOMAIN storeNodes = DOMAIN origin.nodes
          /\ \A x \in DOMAIN storeNodes :
                /\ storeNodes[x].parentId = origin.nodes[x].parentId
                /\ storeNodes[x].isArchived = origin.nodes[x].isArchived

----------------------------------------------------------------------------
(* C11: a createNode step of the store adds exactly one node, under an id  *)
(* no stored node has, with no assistant message, not archived and with    *)
(* empty childIds; a stored parent gets the id as the last element of its  *)
(* childIds; the project's rootNodeId becomes the new id exactly when      *)
(* parentId is null and the project had no rootNodeId, and stays as it was *)
(* otherwise; the project's activeNodeId becomes the new id; every other   *)
(* node is unchanged.                                                      *)
C11_CreateNodeStep ==
    (mode = "store" /\ nextId' = nextId + 1)
    => LET id       == nextId
           p        == storeActiveProjectId
           node     == storeNodes'[id]
           parentId == node.parentId
       IN  /\ id \notin DOMAIN storeNodes
           /\ DOMAIN storeNodes' = DOMAIN storeNodes \cup {id}
           /\ node.id = id
           /\ node.projectId = p
           /\ node.assistantMessage = ""
           /\ ~node.isArchived
           /\ node.childIds = <<>>
           /\ \A x \in DOMAIN storeNodes :
                 storeNodes'[x] =
                     IF x = parentId
                     THEN [storeNodes[x] EXCEPT
                              !.childIds = Append(storeNodes[x].childIds, id)]
                     ELSE storeNodes[x]
           /\ projects'[p].rootNodeId =
                 IF parentId = Null /\ projects[p].rootNodeId = Null
                 THEN id ELSE projects[p].rootNodeId
           /\ projects'[p].activeNodeId = id

C11_CreateNode == [][C11_CreateNodeStep]_vars

\* A second child was created under a node: it is the last of two childIds,
\* it is the project's active node and not its root.
C11_Witness ==
    /\ mode = "store"
    /\ last.op = "createNode"
    /\ Target \in DOMAIN storeNodes
    /\ storeNodes[Target].parentId \in DOMAIN storeNodes
    /\ LET c == storeNodes[storeNodes[Target].parentId].childIds
       IN  Len(c) = 2 /\ c[2] = Target
    /\ projects[storeActiveProjectId].activeNodeId = Target
    /\ projects[storeActiveProjectId].rootNodeId \notin {Target, Null}

----------------------------------------------------------------------------
(* C12: over the store operations a project's rootNodeId, once set, keeps  *)
(* its value while a node of the project is stored, is null when no node   *)
(* of the project is stored, and is never the id of a node that is not     *)
(* stored.                                                                 *)
getProjectNodes(m, p) == {x \in DOMAIN m : m[x].projectId = p}

C12_RootKept ==
    \A p \in DOMAIN projects :
        (/\ projects[p].rootNodeId # Null
         /\ p \in DOMAIN projects'
         /\ getProjectNodes(storeNodes', p) # {})
        => projects'[p].rootNodeId = projects[p].rootNodeId

C12_RootStored ==
    \A p \in DOMAIN projects :
        /\ getProjectNodes(storeNodes, p) = {} => projects[p].rootNodeId = Null
        /\ projects[p].rootNodeId \in DOMAIN storeNodes \cup {Null}

C12_RootNodeId == [][C12_RootKept]_vars /\ []C12_RootStored

----------------------------------------------------------------------------
(* C13: when the response for a pending node arrives, a node that is still *)
(* there gets the assistant message (in the flat app the response and the  *)
(* summary) and nothing else changes; when the node was deleted while the  *)
(* call was in flight the collection stays as it was and the node is not   *)
(* created again.                                                          *)
C13_ResponseAttached ==
    /\ (mode = "send" /\ last.op = "attachResponse")
       => IF HasNode(Pre, Target)
          THEN nodes = [i \in DOMAIN Pre |->
                           IF Pre[i].id = Target
                           THEN [Pre[i] EXCEPT !.assistantResponse = "response",
                                               !.summary = "summary"]
                           ELSE Pre[i]]
          ELSE nodes = Pre
    /\ (mode = "storesend" /\ last.op = "setAssistantMessage")
       => IF Target \in DOMAIN Pre
          THEN storeNodes = [x \in DOMAIN Pre |->
                                IF x = Target
                                THEN [Pre[x] EXCEPT !.assistantMessage = "response"]
                                ELSE Pre[x]]
          ELSE storeNodes = Pre

\* The response arrived for a node that was deleted in flight while another
\* node, still without a response of its own, was in the collection.
C13_Witness ==
    /\ last.op \in {"attachResponse", "setAssistantMessage"}
    /\ \/ /\ mode = "send"
          /\ ~HasNode(Pre, Target)
          /\ \E i \in DOMAIN nodes : nodes[i].assistantResponse = "response"
       \/ /\ mode = "storesend"
          /\ Target \notin DOMAIN Pre
          /\ \E x \in DOMAIN storeNodes : storeNodes[x].assistantMessage = ""

----------------------------------------------------------------------------
(* C14: when the call for a pending node failed, or was not started for    *)
(* want of an API key, then after the send handler has finished the        *)
(* pending node carries an assistant message or is not in the collection,  *)
(* and the failure handling removed and altered no other node.             *)
C14_FlatSettled ==
    (mode = "send" /\ last.op = "rollback")
    => /\ \A i \in DOMAIN nodes :
             nodes[i].id = Target => nodes[i].assistantResponse # ""
       /\ nodes = SelectSeq(Pre, LAMBDA n : n.id # Target)

C14_StoreSettled ==
    (mode = "storesend" /\ last.op \in {"sendFailed", "noApiKey"})
    => /\ Target \in DOMAIN storeNodes => storeNodes[Target].assistantMessage # ""
       /\ last.op = "sendFailed"
          => \A x \in DOMAIN Pre \ {Target} :
                x \in DOMAIN storeNodes /\ storeNodes[x] = Pre[x]

C14_NoHalfWrittenNode == C14_FlatSettled /\ C14_StoreSettled

----------------------------------------------------------------------------
(* C15: in a collection where every parentId is null or the id of a node   *)
(* of the collection, getAncestorPath of a node with d proper ancestors    *)
(* has d+1 elements, starts at a node without parent, ends at the node     *)
(* itself, each element is the parent of the next and no node occurs       *)
(* twice; for an id of no node it is the empty list. This holds for the    *)
(* Map version and for the ChatNode[] version.                             *)
WellFormed(par) == \A x \in DOMAIN par : par[x] \in DOMAIN par \cup {Null}

AncestorsOf(par, id) == {a \in DOMAIN par : Reaches(par, id, a, Cardinality(DOMAIN par))}

IsRootPath(path, par, id, rec(_)) ==
    /\ Len(path) = Cardinality(AncestorsOf(par, id)) + 1
    /\ path[1].parentId = Null
    /\ path[Len(path)] = rec(id)
    /\ \A i \in 1..(Len(path) - 1) : path[i + 1].parentId = path[i].id
    /\ \A i, j \in DOMAIN path : path[i].id = path[j].id => i = j
    /\ \A i \in DOMAIN path : path[i] = rec(path[i].id)

C15_AncestorPath ==
    /\ (mode = "store" /\ WellFormed(StoreParent(storeNodes)))
       => \A id \in NodeIds :
             IF id \in DOMAIN storeNodes
             THEN /\ IsRootPath(getAncestorPath(storeNodes, id), StoreParent(storeNodes),
                                id, LAMBDA x : storeNodes[x])
                  /\ Len(getAncestorPath(storeNodes, id)) = getDepth(storeNodes, id) + 1
             ELSE getAncestorPath(storeNodes, id) = <<>>
    /\ (mode = "flat" /\ WellFormed(FlatParent(nodes)))
       => \A id \in NodeIds :
             IF HasNode(nodes, id)
             THEN IsRootPath(getAncestorPathFlat(nodes, id), FlatParent(nodes),
                             id, LAMBDA x : FindNode(nodes, x))
             ELSE getAncestorPathFlat(nodes, id) = <<>>

\* A stored node at depth 2 has a path of three nodes that starts at the
\* project's root.
C15_Witness ==
    /\ mode = "store"
    /\ WellFormed(StoreParent(storeNodes))
    /\ \E id \in DOMAIN storeNodes :
          /\ Len(getAncestorPath(storeNodes, id)) = 3
          /\ getDepth(storeNodes, id) = 2
          /\ getAncestorPath(storeNodes, id)[1].id = projects[storeActiveProjectId].rootNodeId

----------------------------------------------------------------------------
(* C16: buildContext emits the system prompt once and first when it is not *)
(* blank and not at all otherwise; then the user messages of the nodes of  *)
(* the ancestor path, root first and each once; a model message stands     *)
(* directly behind the user message of exactly the nodes that have an      *)
(* assistant message and carries that message. buildContextForNewMessage   *)
(* emits the context of the parent followed by the new user message.       *)
Blank(systemPrompt) == systemPrompt \in {"", "   "}

\* The number of user messages among the first k messages.
UsersUpTo(msgs, k) == Cardinality({j \in 1..k : msgs[j].role = "user"})

IsContextOf(msgs, path, systemPrompt) ==
    LET users == SelectSeq(msgs, LAMBDA msg : msg.role = "user")
    IN  /\ \A k \in DOMAIN msgs :
              msgs[k].role = "system"
              <=> (k = 1 /\ ~Blank(systemPrompt))
        /\ ~Blank(systemPrompt) => msgs[1].content = systemPrompt
        /\ Len(users) = Len(path)
        /\ \A i \in DOMAIN path : users[i].content = path[i].userMessage
        /\ \A k \in DOMAIN msgs :
              msgs[k].role = "model"
              => /\ k > 1
                 /\ msgs[k - 1].role = "user"
                 /\ msgs[k].content = path[UsersUpTo(msgs, k)].assistantMessage
        /\ \A k \in DOMAIN msgs :
              (msgs[k].role = "user" /\ path[UsersUpTo(msgs, k)].assistantMessage # "")
              => (k < Len(msgs) /\ msgs[k + 1].role = "model")

C16_ContextOfPath ==
    mode = "store"
    => \A id \in NodeIds, systemPrompt \in SystemPrompts :
          /\ IsContextOf(buildContext(storeNodes, id, systemPrompt),
                         getAncestorPath(storeNodes, id), systemPrompt)
          /\ buildContextForNewMessage(storeNodes, id, "new", systemPrompt)
             = Append(buildContext(storeNodes, id, systemPrompt),
                      [role |-> "user", content |-> "new"])
          /\ buildContextForNewMessage(storeNodes, Null, "new", systemPrompt)
             = IF Blank(systemPrompt)
               THEN <<[role |-> "user", content |-> "new"]>>
               ELSE <<[role |-> "system", content |-> systemPrompt],
                      [role |-> "user", content |-> "new"]>>

\* A path of three nodes of which the middle one awaits its response: the
\* context has a system message, three user messages and two model
\* messages.
C16_Witness ==
    /\ mode = "store"
    /\ \E id \in DOMAIN storeNodes :
          LET path == getAncestorPath(storeNodes, id)
              msgs == buildContext(storeNodes, id, " Be brief. ")
          IN  /\ Len(path) = 3
              /\ path[1].assistantMessage # ""
              /\ path[2].assistantMessage = ""
              /\ path[3].assistantMessage # ""
              /\ Len(msgs) = 6
              /\ msgs[1].role = "system"

----------------------------------------------------------------------------
(* C17: with at least one pinned node, the context holds exactly the nodes *)
(* that are a pinned node or an ancestor of one, each once and as stored,  *)
(* in order of non-decreasing timestamp; a pinned id of no node adds       *)
(* nothing.                                                                *)
OnPinnedPath(ns, pinned) ==
    {id \in Ids(ns) : \E pin \in pinned \cap Ids(ns) :
                         id = pin \/ id \in AncestorsOf(FlatParent(ns), pin)}

C17_PinnedContext ==
    (mode = "pin" /\ contextNodeIds # {})
    => LET ctx == contextPath(nodes, contextNodeIds, activePath(nodes, activeNodeId))
       IN  /\ Ids(ctx) = OnPinnedPath(nodes, contextNodeIds)
           /\ Len(ctx) = Cardinality(OnPinnedPath(nodes, contextNodeIds))
           /\ \A i \in DOMAIN ctx : ctx[i] = FindNode(nodes, ctx[i].id)
           /\ \A i, j \in DOMAIN ctx : i < j => ctx[i].timestamp <= ctx[j].timestamp

\* Two pinned nodes on different branches under a common parent: the
\* context holds the three nodes once each, and the array order of the
\* nodes is not their timestamp order.
C17_Witness ==
    /\ mode = "pin"
    /\ \E a, b \in contextNodeIds \cap Ids(nodes) :
          /\ a # b
          /\ a \notin AncestorsOf(FlatParent(nodes), b)
          /\ b \notin AncestorsOf(FlatParent(nodes), a)
          /\ AncestorsOf(FlatParent(nodes), a) \cap AncestorsOf(FlatParent(nodes), b) # {}
    /\ LET ctx == contextPath(nodes, contextNodeIds, activePath(nodes, activeNodeId))
       IN  /\ Len(ctx) = 3
           /\ \E i \in 1..2 : ctx[i].id > ctx[i + 1].id

----------------------------------------------------------------------------
(* Vocabulary of the layout properties                                     *)

\* The pairs of different laid-out nodes of one depth.
SameRow(layout) ==
    {pair \in (DOMAIN layout) \X (DOMAIN layout) :
        pair[1] # pair[2] /\ layout[pair[1]].depth = layout[pair[2]].depth}

\* The intervals [x, x + width] of two layout nodes have no point in common.
Disjoint(a, b) == a.x + a.width < b.x \/ b.x + b.width < a.x

Apart(a, b, distance) == a.x + distance <= b.x \/ b.x + distance <= a.x

\* nodeWidth + horizontalSpacing of the options the canvas was laid out with.
CanvasUnit == canvas.options.nodeWidth + canvas.options.horizontalSpacing

(* C18, as stated: in the layout calculateTreeLayout returns, for every    *)
(* tree and every spacing configuration, two different nodes of the same    *)
(* depth have disjoint horizontal intervals [x, x + width] and their x      *)
(* differ by at least nodeWidth + horizontalSpacing.                        *)
C18_RowsDisjoint ==
    canvas.rendered =>
        \A pair \in SameRow(canvas.layout) :
            /\ Disjoint(canvas.layout[pair[1]], canvas.layout[pair[2]])
            /\ Apart(canvas.layout[pair[1]], canvas.layout[pair[2]], CanvasUnit)

(* C18, amended: two different nodes of the same depth have x that differ   *)
(* by at least nodeWidth + horizontalSpacing, so their intervals            *)
(* [x, x + width] share at most an end point; the intervals are disjoint    *)
(* when horizontalSpacing is positive.                                      *)
C18_RowsApart ==
    canvas.rendered =>
        \A pair \in SameRow(canvas.layout) :
            /\ Apart(canvas.layout[pair[1]], canvas.layout[pair[2]], CanvasUnit)
            /\ canvas.options.horizontalSpacing > 0 =>
                   Disjoint(canvas.layout[pair[1]], canvas.layout[pair[2]])

\* A layout with positive spacing in which a subtree was moved away from
\* its left neighbour: two children next to each other under one parent are
\* further apart than nodeWidth + horizontalSpacing, and a node below one
\* of them is exactly that far from a node below the other.
C18_Witness ==
    /\ canvas.rendered
    /\ canvas.options.horizontalSpacing > 0
    /\ \E pair \in SameRow(canvas.layout) :
         LET a == canvas.layout[pair[1]]
             b == canvas.layout[pair[2]]
         IN  /\ a.parentId = b.parentId
             /\ a.x + CanvasUnit < b.x
             /\ \A c \in DOMAIN canvas.layout :
                    canvas.layout[c].depth = a.depth =>
                    ~(a.x < canvas.layout[c].x /\ canvas.layout[c].x < b.x)
             /\ \E below \in SameRow(canvas.layout) :
                    /\ canvas.layout[below[1]].parentId = a.id
                    /\ canvas.layout[below[2]].parentId = b.id
                    /\ canvas.layout[below[1]].x + CanvasUnit = canvas.layout[below[2]].x

----------------------------------------------------------------------------
(* C19: in the layout calculateTreeLayout returns, every node with a        *)
(* laid-out child has its x at the midpoint of the x of its first and of    *)
(* its last laid-out child, and every node has                              *)
(* y = depth * (nodeHeight + verticalSpacing), its depth being its          *)
(* distance from the layout root.                                           *)
C19_ParentCentred ==
    canvas.rendered =>
        \A id \in DOMAIN canvas.layout :
            LET n == canvas.layout[id]
            IN  /\ Len(n.childIds) > 0 =>
                     2 * n.x = canvas.layout[n.childIds[1]].x
                               + canvas.layout[n.childIds[Len(n.childIds)]].x
                /\ n.y = n.depth * (canvas.options.nodeHeight
                                    + canvas.options.verticalSpacing)
                /\ IF id = canvas.rootId THEN n.depth = 0
                   ELSE /\ n.parentId \in DOMAIN canvas.layout
                        /\ n.depth = canvas.layout[n.parentId].depth + 1

\* A layout in which a node with a left sibling has several children, one
\* of them with children of its own.
C19_Witness ==
    /\ canvas.rendered
    /\ \E id \in DOMAIN canvas.layout :
         LET n == canvas.layout[id]
         IN  /\ id # canvas.rootId
             /\ canvas.layout[n.parentId].childIds[1] # id
             /\ Len(n.childIds) > 1
             /\ \E c \in Range(n.childIds) : Len(canvas.layout[c].childIds) > 0
             /\ n.x # canvas.layout[n.childIds[1]].x
             /\ n.y > 0

----------------------------------------------------------------------------
(* C20: without showArchived the layout holds no archived node; with       *)
(* showArchived it is the layout the same store gives when no node is       *)
(* archived; in both cases no descendant of a collapsed node is laid out,   *)
(* a collapsed node that is laid out has no childIds, the nodes laid out    *)
(* are the root and the nodes below it that are not filtered out and have   *)
(* no collapsed or filtered-out ancestor, and the call leaves the store's   *)
(* nodes as they were.                                                      *)
Hidden(m, options, id) == ~options.showArchived /\ m[id].isArchived

Visible(m, rootId, options) ==
    {id \in DOMAIN m :
        /\ id = rootId \/ rootId \in AncestorsOf(StoreParent(m), id)
        /\ ~Hidden(m, options, id)
        /\ \A a \in AncestorsOf(StoreParent(m), id) :
               ~m[a].isCollapsed /\ ~Hidden(m, options, a)}

ClearArchived(m) == [id \in DOMAIN m |-> [m[id] EXCEPT !.isArchived = FALSE]]

C20_Filtered ==
    canvas.rendered =>
        /\ ~canvas.options.showArchived =>
               \A id \in DOMAIN canvas.layout : ~storeNodes[id].isArchived
        /\ canvas.options.showArchived =>
               canvas.layout =
                   calculateTreeLayout(ClearArchived(storeNodes), canvas.rootId,
                       [canvas.options EXCEPT !.showArchived = FALSE]).layout
        /\ \A c \in DOMAIN storeNodes :
               storeNodes[c].isCollapsed =>
                   /\ DescendantsOf(StoreParent(storeNodes), c)
                          \cap DOMAIN canvas.layout = {}
                   /\ c \in DOMAIN canvas.layout => canvas.layout[c].childIds = <<>>
        /\ DOMAIN canvas.layout = Visible(storeNodes, canvas.rootId, canvas.options)
        /\ \A id \in DOMAIN canvas.layout :
               ~storeNodes[id].isCollapsed =>
                   canvas.layout[id].childIds =
                       SelectSeq(storeNodes[id].childIds,
                                 LAMBDA c : c \in DOMAIN canvas.layout)

C20_StoreKept == canvas'.rendered /\ canvas' # canvas => storeNodes' = storeNodes

C20_LayoutFilter == []C20_Filtered /\ [][C20_StoreKept]_vars

\* A layout with showArchived that holds an archived node, of a store with
\* a collapsed node that has children and is laid out.
C20_Witness ==
    /\ canvas.rendered
    /\ canvas.options.showArchived
    /\ \E id \in DOMAIN canvas.layout : storeNodes[id].isArchived
    /\ \E c \in DOMAIN canvas.layout :
          storeNodes[c].isCollapsed /\ storeNodes[c].childIds # <<>>

----------------------------------------------------------------------------
(* C21: when the filtered nodes of the project hold more than one           *)
(* root-level node, the hierarchy built for the graph holds every one of    *)
(* them with its visible subtree below one virtual root, and the virtual    *)
(* root is not among the nodes that are drawn.                              *)

\* The nodes of the project the tree view may show, and their roots.
VisibleNodes(ns, p) == Filter(ns, LAMBDA n : n.projectId = p /\ ~n.isArchived)

RootLevel(ns, p) == {n.id : n \in {m \in Range(VisibleNodes(ns, p)) : m.parentId = Null}}

\* Every root with its visible subtree is in the tree.
HoldsRoots(tree, ns, p) ==
    \A r \in RootLevel(ns, p) :
        SubtreeOf(FlatParent(VisibleNodes(ns, p)), r) \subseteq drawn(tree)

\* The tree is a virtual root with the root-level nodes as its children.
Joined(tree, ns, p) ==
    /\ tree.id \in VirtualIds
    /\ {tree.children[i].id : i \in DOMAIN tree.children} = RootLevel(ns, p)

\* What is drawn apart from a virtual root.
DrawnNodes(tree) == drawn(tree) \ VirtualIds

C21_AllRoots ==
    (mode = "graph" /\ Cardinality(RootLevel(nodes, activeProjectId)) > 1)
    => /\ HoldsRoots(buildHierarchy(nodes, activeProjectId), nodes, activeProjectId)
       /\ Joined(buildHierarchy(nodes, activeProjectId), nodes, activeProjectId)
       /\ drawn(buildHierarchy(nodes, activeProjectId)) \cap VirtualIds = {}

\* The variant with a virtual root does hold every root and its subtree
\* below the virtual root, and nothing else.
C21_VirtualJoins ==
    (mode = "graph" /\ Cardinality(RootLevel(nodes, activeProjectId)) > 1)
    => /\ HoldsRoots(buildHierarchyVirtual(nodes, activeProjectId, FALSE),
                     nodes, activeProjectId)
       /\ Joined(buildHierarchyVirtual(nodes, activeProjectId, FALSE),
                 nodes, activeProjectId)
       /\ DrawnNodes(buildHierarchyVirtual(nodes, activeProjectId, FALSE))
              \subseteq Ids(VisibleNodes(nodes, activeProjectId))

\* Its virtual root is one of the nodes handed to d3 and drawn.
C21_VirtualNotDrawn ==
    mode = "graph"
    => VIRTUAL_ROOT \notin drawn(buildHierarchyVirtual(nodes, activeProjectId, FALSE))

----------------------------------------------------------------------------
(* C22: over node clicks, context toggles and sends in the tree view and    *)
(* in the archive view, the id of a virtual root is never the active node,  *)
(* never a pinned context node and never the id or the parentId of a node   *)
(* of the collection.                                                       *)
C22_NotActive == activeNodeId \notin VirtualIds

C22_NotPinned == contextNodeIds \cap VirtualIds = {}

C22_NotStored ==
    \A i \in DOMAIN nodes : nodes[i].id \notin VirtualIds /\ nodes[i].parentId \notin VirtualIds

C22_NoVirtualLeak == mode = "graph" => C22_NotActive /\ C22_NotPinned /\ C22_NotStored

----------------------------------------------------------------------------
(* C23: a node whose parentId names no node of the collection is treated   *)
(* as one more root: the hierarchy holds it, with its subtree, as a         *)
(* root-level node, and getAncestorPath of it returns a path that starts    *)
(* at it.                                                                   *)

\* The nodes whose parentId names no node of the collection.
Orphans(ns) ==
    {ns[i].id : i \in {j \in DOMAIN ns : /\ ns[j].parentId # Null
                                          /\ ~HasNode(ns, ns[j].parentId)}}

\* `id` is the root of the tree or a child of its virtual root.
RootLevelIn(tree, id) ==
    \/ tree.id = id
    \/ /\ tree.id \in VirtualIds
       /\ \E i \in DOMAIN tree.children : tree.children[i].id = id

C23_PathStartsAtOrphan ==
    mode = "graph"
    => \A o \in Orphans(nodes) :
          /\ getAncestorPathFlat(nodes, o) # <<>>
          /\ getAncestorPathFlat(nodes, o)[1].id = o

C23_OrphanIsRoot ==
    mode = "graph"
    => \A o \in Orphans(nodes) \cap Ids(VisibleNodes(nodes, activeProjectId)) :
          /\ RootLevelIn(buildHierarchyVirtual(nodes, activeProjectId, FALSE), o)
          /\ RootLevelIn(buildHierarchy(nodes, activeProjectId), o)
          /\ getAncestorPathFlat(nodes, o)[1].id = o

\* A visible node below a parent that is not stored.
C23_Reached ==
    /\ mode = "graph"
    /\ Orphans(nodes) \cap Ids(VisibleNodes(nodes, activeProjectId)) # {}

----------------------------------------------------------------------------
(* C24: deleting project p removes p and every node of p and nothing else:  *)
(* no node of p is left, the nodes of the other projects are unchanged,     *)
(* and when p was the active project the first remaining project (or none)  *)
(* is the active one and no node is active.                                 *)

\* A step of the flat app that takes a project from the list.
C24_FlatStep ==
    \A p \in Range(appProjects) \ Range(appProjects') :
        /\ appProjects' = SelectSeq(appProjects, LAMBDA q : q # p)
        /\ \A i \in DOMAIN nodes' : nodes'[i].projectId # p
        /\ nodes' = Filter(nodes, LAMBDA n : n.projectId # p)
        /\ activeProjectId = p =>
              /\ activeProjectId' = IF appProjects' = <<>> THEN NoProject
                                    ELSE appProjects'[1]
              /\ activeNodeId' = Null
        /\ activeProjectId # p => UNCHANGED <<activeProjectId, activeNodeId>>

\* A step of the stores that takes a project from the project store.
C24_StoreStep ==
    \A p \in DOMAIN projects \ DOMAIN projects' :
        /\ DOMAIN projects' = DOMAIN projects \ {p}
        /\ \A id \in DOMAIN storeNodes' : storeNodes'[id].projectId # p
        /\ \A id \in DOMAIN storeNodes :
              storeNodes[id].projectId # p =>
                  id \in DOMAIN storeNodes' /\ storeNodes'[id] = storeNodes[id]
        /\ storeActiveProjectId = p =>
              IF DOMAIN projects' = {} THEN storeActiveProjectId' = Null
              ELSE storeActiveProjectId' \in DOMAIN projects'

C24_DeleteProject == [][C24_FlatStep /\ C24_StoreStep]_vars

\* The flat app alone does what the sentence says.
C24_FlatDeleteProject == [][C24_FlatStep]_vars

\* In the stores the nodes of the other projects are kept, and the project
\* is gone.
C24_StoreOthersKept ==
    [][\A p \in DOMAIN projects \ DOMAIN projects' :
          /\ DOMAIN projects' = DOMAIN projects \ {p}
          /\ storeNodes' = storeNodes]_vars

\* The flat app after the active project, which had nodes, was deleted next
\* to a project with nodes.
C24_Reached ==
    /\ mode = "projects"
    /\ Len(appProjects) = 2
    /\ activeProjectId = appProjects[1]
    /\ activeNodeId = Null
    /\ nodes # <<>>
    /\ nextId > Len(nodes) + 1

----------------------------------------------------------------------------
(* C25: under every interleaving of sends (creation, later success or       *)
(* failure), node clicks and confirmed delete / archive / unarchive         *)
(* actions, the active node of the flat app is null or a stored node of     *)
(* the active project, and in the stores the active node of a project is   *)
(* null or a stored node.                                                   *)
C25_FlatActive ==
    \/ activeNodeId = Null
    \/ /\ HasNode(nodes, activeNodeId)
       /\ FindNode(nodes, activeNodeId).projectId = activeProjectId

C25_StoreActive ==
    \A p \in DOMAIN projects :
        projects[p].activeNodeId \in DOMAIN storeNodes \cup {Null}

C25_ActiveNodeStored == C25_FlatActive /\ C25_StoreActive

----------------------------------------------------------------------------
(* C26: after any sequence of create, delete, archive and unarchive         *)
(* operations, following parentId from any node reaches null or an id of    *)
(* no node in at most |nodes| steps; so getAncestorPath, getDepth and the   *)
(* descendant collection of the cascade operations come to an end, with     *)
(* no node met twice.                                                       *)

\* The walk up the parent links from `id` ends within `fuel` steps.
RECURSIVE WalkEnds(_, _, _)
WalkEnds(par, id, fuel) ==
    \/ id \notin DOMAIN par
    \/ fuel > 0 /\ WalkEnds(par, par[id], fuel - 1)

Acyclic(par) == \A id \in DOMAIN par : WalkEnds(par, id, Cardinality(DOMAIN par))

C26_FlatAcyclic ==
    mode = "graph"
    => /\ Acyclic(FlatParent(nodes))
       /\ \A id \in Ids(nodes) :
             /\ Len(getAncestorPathFlat(nodes, id)) <= Len(nodes)
             /\ id \notin findDescendants(nodes, {id}, {})

C26_StoreAcyclic ==
    mode = "store"
    => /\ Acyclic(StoreParent(storeNodes))
       /\ \A id \in DOMAIN storeNodes :
             /\ Len(getAncestorPath(storeNodes, id)) <= Cardinality(DOMAIN storeNodes)
             /\ getDepth(storeNodes, id) <= Cardinality(DOMAIN storeNodes)
             /\ id \notin collectChildIds(storeNodes, {id}, {})

C26_ParentLinksAcyclic == C26_FlatAcyclic /\ C26_StoreAcyclic

\* A grandchild hangs below its grandparent after the node between them was
\* deleted or archived alone, and an archived node is stored.
C26_Witness ==
    /\ mode = "graph"
    /\ Len(nodes) >= 2
    /\ \E i, j \in DOMAIN nodes :
          /\ nodes[i].parentId = nodes[j].id
          /\ nodes[j].parentId = Null
          /\ nodes[i].id > nodes[j].id + 1
    /\ \E i \in DOMAIN nodes : nodes[i].isArchived

----------------------------------------------------------------------------
(* C27: in a project with one root, after any sequence of create, archive,  *)
(* unarchive and delete operations every node that is not archived is in    *)
(* the tree buildHierarchy returns without showArchived and, in the stores  *)
(* (where no node is collapsed), in the layout calculateTreeLayout returns   *)
(* without showArchived.                                                    *)

\* The nodes of project p are one tree: one node without parent, every
\* other node below a node of the project.
SingleRootedFlat(ns, p) ==
    /\ Cardinality({i \in DOMAIN ns : ns[i].projectId = p /\ ns[i].parentId = Null}) = 1
    /\ \A i \in DOMAIN ns :
          (ns[i].projectId = p /\ ns[i].parentId # Null) => HasNode(ns, ns[i].parentId)

SingleRootedStore(m, rootId) ==
    /\ rootId \in DOMAIN m
    /\ \A id \in DOMAIN m : m[id].parentId = Null <=> id = rootId
    /\ \A id \in DOMAIN m : m[id].parentId \in DOMAIN m \cup {Null}

C27_FlatShown ==
    (mode = "graph" /\ SingleRootedFlat(nodes, activeProjectId))
    => Ids(VisibleNodes(nodes, activeProjectId))
           \subseteq drawn(buildHierarchyVirtual(nodes, activeProjectId, FALSE))

C27_StoreShown ==
    (/\ mode = "store"
     /\ storeActiveProjectId # Null
     /\ SingleRootedStore(storeNodes, projects[storeActiveProjectId].rootNodeId))
    => {id \in DOMAIN storeNodes : ~storeNodes[id].isArchived}
           \subseteq DOMAIN calculateTreeLayout(storeNodes,
                                                projects[storeActiveProjectId].rootNodeId,
                                                DefaultOptions).layout

C27_NoVisibleNodeHidden == C27_FlatShown /\ C27_StoreShown

----------------------------------------------------------------------------
(* C28: the history sent to the model for a new message holds every node    *)
(* on the ancestor path of the active node, the node the message is hung    *)
(* below, whether or not context nodes are pinned.                          *)
C28_HistoryHoldsPath ==
    mode = "pin"
    => Ids(activePath(nodes, activeNodeId))
           \subseteq Ids(history(nodes, contextNodeIds, activeNodeId))

\* Without pinned nodes the history is the path of the active node.
C28_Unpinned ==
    (mode = "pin" /\ contextNodeIds = {})
    => history(nodes, contextNodeIds, activeNodeId) = activePath(nodes, activeNodeId)

----------------------------------------------------------------------------
(* C29: findCommonAncestor(nodes, a, b) is the deepest node on both the     *)
(* root-to-a and the root-to-b path (a itself when a = b or when a is an    *)
(* ancestor of b), and undefined exactly when the paths share no node.      *)

\* The ids on both ancestor paths.
CommonOf(m, a, b) ==
    {n.id : n \in Range(getAncestorPath(m, a))}
        \cap {n.id : n \in Range(getAncestorPath(m, b))}

\* r is the common node that has every common node on its own path.
Deepest(m, a, b, r) ==
    /\ r \in CommonOf(m, a, b)
    /\ CommonOf(m, a, b) \subseteq {n.id : n \in Range(getAncestorPath(m, r))}

C29_UndefinedIffDisjoint ==
    mode = "store"
    => \A a, b \in NodeIds :
          findCommonAncestor(storeNodes, a, b) = Null <=> CommonOf(storeNodes, a, b) = {}

C29_DeepestCommon ==
    mode = "store"
    => \A a, b \in NodeIds :
          /\ findCommonAncestor(storeNodes, a, b) = Null <=> CommonOf(storeNodes, a, b) = {}
          /\ CommonOf(storeNodes, a, b) # {}
                => Deepest(storeNodes, a, b, findCommonAncestor(storeNodes, a, b))

\* What is returned is the common node nearest to the root: the first node
\* of the path of b.
C29_FirstOfPath ==
    mode = "store"
    => \A a, b \in NodeIds :
          CommonOf(storeNodes, a, b) # {}
             => findCommonAncestor(storeNodes, a, b) = getAncestorPath(storeNodes, b)[1].id

----------------------------------------------------------------------------
(* C30: for an active node at depth d the linear chat view renders d+1      *)
(* nodes, the root first, with the active node once, as the last entry.     *)

\* `path` runs from a root to node a, each node once.
RootToNode(m, path, a) ==
    /\ Len(path) = getDepth(m, a) + 1
    /\ path[Len(path)].id = a
    /\ Cardinality({i \in DOMAIN path : path[i].id = a}) = 1
    /\ \A i \in 1..(Len(path) - 1) : path[i + 1].parentId = path[i].id

\* Node a is stored and the walk up from it ends at a node without parent.
Rooted(m, a) ==
    /\ a \in DOMAIN m
    /\ getAncestorPath(m, a)[1].parentId = Null

C30_LinearPath ==
    mode = "store"
    => \A p \in DOMAIN projects :
          Rooted(storeNodes, projects[p].activeNodeId)
             => RootToNode(storeNodes,
                           LinearViewPath(storeNodes, projects[p].activeNodeId),
                           projects[p].activeNodeId)

\* The active node is rendered twice, as the last two entries.
C30_ActiveTwice ==
    mode = "store"
    => \A p \in DOMAIN projects :
          Rooted(storeNodes, projects[p].activeNodeId)
             => LET path == LinearViewPath(storeNodes, projects[p].activeNodeId)
                IN  /\ Len(path) = getDepth(storeNodes, projects[p].activeNodeId) + 2
                    /\ path[Len(path)].id = projects[p].activeNodeId
                    /\ path[Len(path) - 1].id = projects[p].activeNodeId

\* With the store's getAncestors in place of getAncestorPath the path is
\* the one the sentence describes.
C30_WithGetAncestors ==
    mode = "store"
    => \A p \in DOMAIN projects :
          Rooted(storeNodes, projects[p].activeNodeId)
             => RootToNode(storeNodes,
                           Append(getAncestors(storeNodes, projects[p].activeNodeId),
                                  storeNodes[projects[p].activeNodeId]),
                           projects[p].activeNodeId)

====
